---------------------------- MODULE Spec2Model ----------------------------
(***************************************************************************)
(* A model of the BrickStor dataset/share reconciliation code:             *)
(*   module_utils/api.py           the API client (the store boundary)     *)
(*   module_utils/api_datasets.py  the Dataset orchestration methods       *)
(*   module_utils/netacl.py, smb.py  access lists and the SMB descriptor   *)
(*   modules/dataset.py, share.py  the two Ansible modules                 *)
(*                                                                         *)
(* Every handler is synchronous and runs to completion, so one action is   *)
(* one whole call of a handler: it takes the store before the call, the    *)
(* caller's arguments and the fault the environment injects, and leaves    *)
(* the store after the call plus a record `last` of what the call          *)
(* returned (or raised) and of every boundary call it issued, in order.    *)
(***************************************************************************)
EXTENDS Integers, Sequences, FiniteSets, TLC

VARIABLES
    store,  \* the appliance: path -> [exists, props (wire strings), perms]
    last    \* what the most recent handler call did

vars == <<store, last>>

---------------------------------------------------------------------------
(* Bounds of the model.                                                    *)

\* At most this many properties are supplied by a caller in one call.
MaxOverlay == 1
\* The injected transport/command fault hits one of the first MaxFaultAt
\* boundary calls of a handler.
MaxFaultAt == 4
\* At most this many datasets are busy (cannot be destroyed) during a call.
MaxBusy == 1
\* At most this many tokens make up each of the two lists checked for
\* conflicts.
MaxConflictTokens == 2
\* At most this many tokens make up an access list that is constructed and
\* rendered.
MaxTokens == 2

---------------------------------------------------------------------------
(* Python values: None, int, str.  An int carries its decimal string.      *)

NoneV == [t |-> "none", v |-> ""]
IntV(s) == [t |-> "int", v |-> s]
StrV(s) == [t |-> "str", v |-> s]

\* The decimal literals that occur in the model: str.isnumeric() is true of
\* exactly these among the strings used.
DecimalStrings == {"0", "1", "2", "131072"}

isnumeric(s) == s \in DecimalStrings

---------------------------------------------------------------------------
(* The property registry and the default profile.                          *)

KNOWN_PROPS ==
    { "aclinherit", "aclmode", "atime", "canmount", "checksum",
      "compression", "copies", "devices", "exec", "filesystem_limit",
      "logbias", "nbmand", "casesensitivity", "normalization", "utf8only",
      "primarycache", "quota", "readonly", "recordsize",
      "redundant_metadata", "refquota", "refreservation", "reservation",
      "secondarycache", "setuid", "snapdir", "snapshot_limit", "sync",
      "vscan", "xattr", "zoned", "racktop:storage_profile",
      "racktop:encoded_description", "smartfolders", "racktop:ub",
      "racktop:ub_suspend", "racktop:ub_thresholds", "racktop:ub_trial",
      "racktop:version", "sharenfs", "sharesmb" }

DEFAULT_DATASET_PROPS ==
    [k \in KNOWN_PROPS |->
        CASE k \in {"aclinherit", "aclmode"} -> StrV("passthrough")
          [] k \in {"atime", "canmount", "devices", "exec", "nbmand",
                    "setuid", "xattr", "racktop:ub"} -> StrV("on")
          [] k = "checksum" -> StrV("fletcher4")
          [] k = "compression" -> StrV("lz4")
          [] k \in {"copies", "racktop:version"} -> IntV("1")
          [] k \in {"filesystem_limit", "normalization", "quota",
                    "refquota", "refreservation", "reservation",
                    "snapshot_limit"} -> NoneV
          [] k = "logbias" -> StrV("latency")
          [] k = "casesensitivity" -> StrV("mixed")
          [] k \in {"utf8only", "readonly", "vscan", "zoned",
                    "smartfolders", "sharenfs", "sharesmb"} -> StrV("off")
          [] k \in {"primarycache", "redundant_metadata",
                    "secondarycache"} -> StrV("all")
          [] k = "recordsize" -> IntV("131072")
          [] k = "snapdir" -> StrV("hidden")
          [] k = "sync" -> StrV("standard")
          [] k = "racktop:storage_profile" -> StrV("general_filesystem")
          [] k \in {"racktop:encoded_description", "racktop:ub_suspend",
                    "racktop:ub_trial"} -> StrV("")
          [] k = "racktop:ub_thresholds" -> StrV("null")]

\* The empty dict.
EmptyDict == [k \in {} |-> NoneV]

\* dict(d) restricted to the keys in ks.
Restrict(d, ks) == [k \in (DOMAIN d) \cap ks |-> d[k]]

\* A difference taken the other way round: the pairs of b that are not
\* pairs of a.
ItemsMinus_swapped(a, b) ==
    Restrict(b, {k \in DOMAIN b : ~(k \in DOMAIN a /\ a[k] = b[k])})

\* dict(set(a.items()) - set(b.items())): the pairs of a that are not pairs
\* of b.
ItemsMinus(a, b) ==
    Restrict(a, {k \in DOMAIN a : ~(k \in DOMAIN b /\ b[k] = a[k])})

\* A merge that leaves the model as it is.
merge_keeps_props(props, changes) == props

\* Dataset.merge on a model holding props: every key known (the caller has
\* checked), a None override of an int-typed value is accepted, anything
\* else overwrites.
merge(props, changes) ==
    [k \in DOMAIN props |->
        IF k \in DOMAIN changes
        THEN IF changes[k].t # props[k].t /\ props[k].t = "int"
                /\ changes[k] = NoneV
             THEN NoneV
             ELSE changes[k]
        ELSE props[k]]

\* A merge that rejects no key.
UnknownKeys_none(changes) == {}

\* The keys of changes that Dataset.merge rejects.
UnknownKeys(changes) == {k \in DOMAIN changes : k \notin KNOWN_PROPS}

\* Dataset._dataset_props: the model's values as the API takes them.
WireValue(v) ==
    IF v = NoneV THEN "none"
    ELSE IF v.t = "int" THEN v.v
    ELSE v.v

dataset_props(props) == [k \in DOMAIN props |-> WireValue(props[k])]

\* AnsibleBsrApiClient._parse_dataset_details, one property line.
ParseValue(prop, value) ==
    IF value = "none" THEN NoneV
    ELSE IF isnumeric(value)
         THEN IF prop \in {"quota", "refquota", "reservation",
                           "refreservation"}
              THEN IF value = "0" THEN NoneV ELSE StrV(value)
              ELSE IntV(value)
         ELSE StrV(value)

parse_dataset_details(wire) ==
    [k \in (DOMAIN wire) \cap KNOWN_PROPS |-> ParseValue(k, wire[k])]


---------------------------------------------------------------------------
(* Dataset paths.  A path is a Python str; PathChars gives its characters, *)
(* which is what sorted() compares (by code point) and what makes one path *)
(* a descendant of another.  The pool "p" always exists, is not managed.   *)

A == "p/a"
AB == "p/a/b"
ABC == "p/a/b/c"
AB_C == "p/a/b-c"

Paths == {A, AB, ABC, AB_C}

PathChars(p) ==
    CASE p = A -> <<"p", "/", "a">>
      [] p = AB -> <<"p", "/", "a", "/", "b">>
      [] p = ABC -> <<"p", "/", "a", "/", "b", "/", "c">>
      [] p = AB_C -> <<"p", "/", "a", "/", "b", "-", "c">>

\* ord(c) for the characters of the paths.
CodePoint(c) ==
    CASE c = "-" -> 45 [] c = "/" -> 47 [] c = "a" -> 97 [] c = "b" -> 98
      [] c = "c" -> 99 [] c = "p" -> 112

\* s is a proper prefix of t followed by "/": t lies below s.
IsDescendant(t, s) ==
    LET cs == PathChars(s)
        ct == PathChars(t)
    IN /\ Len(ct) > Len(cs) + 1
       /\ SubSeq(ct, 1, Len(cs)) = cs
       /\ ct[Len(cs) + 1] = "/"

\* The path one component up, when it is a managed path.
HasParentIn(t, S) ==
    \A s \in Paths :
        (IsDescendant(t, s)
         /\ ~\E m \in Paths : IsDescendant(t, m) /\ IsDescendant(m, s))
        => s \in S

\* Python's str order: code point by code point, a proper prefix first.
RECURSIVE SeqLess(_, _)
SeqLess(s, t) ==
    IF s = <<>> THEN t # <<>>
    ELSE IF t = <<>> THEN FALSE
    ELSE IF Head(s) # Head(t) THEN CodePoint(Head(s)) < CodePoint(Head(t))
    ELSE SeqLess(Tail(s), Tail(t))

StrLess(p, q) == SeqLess(PathChars(p), PathChars(q))

\* sorted(xs): insertion into an ascending list.
RECURSIVE Insert(_, _)
Insert(x, ys) ==
    IF ys = <<>> THEN <<x>>
    ELSE IF StrLess(Head(ys), x) THEN <<Head(ys)>> \o Insert(x, Tail(ys))
    ELSE <<x>> \o ys

RECURSIVE sorted(_)
sorted(xs) == IF xs = <<>> THEN <<>> ELSE Insert(Head(xs), sorted(Tail(xs)))

reversed(xs) == [i \in 1..Len(xs) |-> xs[Len(xs) + 1 - i]]

Range(xs) == {xs[i] : i \in 1..Len(xs)}

\* The sequences that list every element of S exactly once.
Orderings(S) ==
    {xs \in [1..Cardinality(S) -> S] : Range(xs) = S}

\* The children in ascending order.
children_ascending(children_unsorted) == sorted(children_unsorted)

\* children_sorted in AnsibleBsrApiClient.destroy_dataset.
children_sorted(children_unsorted) == reversed(sorted(children_unsorted))

---------------------------------------------------------------------------
(* The appliance.                                                          *)

\* Filesystem permissions as the perms endpoint reports them.
Perms(acl, owner_sid, owner_group_sid) ==
    [acl |-> acl, owner_sid |-> owner_sid,
     owner_group_sid |-> owner_group_sid]

DefaultPerms == Perms(<<>>, "S-1-5-32-766", "S-1-5-32-767")

DefaultWire == dataset_props(DEFAULT_DATASET_PROPS)

AbsentDataset ==
    [exists |-> FALSE, props |-> DefaultWire, perms |-> DefaultPerms]

FreshDataset(wire) ==
    [exists |-> TRUE,
     props |-> [k \in KNOWN_PROPS |->
                   IF k \in DOMAIN wire THEN wire[k] ELSE DefaultWire[k]],
     perms |-> DefaultPerms]

Existing(st) == {p \in Paths : st[p].exists}

DescendantsOf(st, p) == {d \in Existing(st) : IsDescendant(d, p)}

\* A dataset exists only below an existing dataset (or directly in the pool).
WellFormed(st) == \A p \in Existing(st) : HasParentIn(p, Existing(st))

---------------------------------------------------------------------------
(* What the environment does to one handler call: the fault-th boundary    *)
(* call fails, and the datasets in busy refuse to be destroyed; listing is *)
(* the order in which the appliance lists datasets.                        *)

NoFault == [at |-> 0, kind |-> "none"]

\* The kinds of fault: "dqe", the client raises DatasetQueryError (a
\* connection timeout in auth_if_required, or a failed command); "http",
\* requests raises (transport error, HTTP status); "nospace", the command
\* fails for lack of space.  FaultsUpTo(n): the faults that can hit a
\* handler issuing at most n boundary calls.
FaultsUpTo(n) ==
    {NoFault}
    \cup {[at |-> i, kind |-> k] :
            i \in 1..(IF n < MaxFaultAt THEN n ELSE MaxFaultAt),
            k \in {"dqe", "http"}}

FaultAt(env, i) == IF env.fault.at = i THEN env.fault.kind ELSE "none"

Env(fault, busy, listing) ==
    [fault |-> fault, busy |-> busy, listing |-> listing]

\* The appliance lists datasets in an order of its own.
Listings(st, p) == Orderings(DescendantsOf(st, p))

\* What can happen to a destroy of p: one disturbance per call (a fault,
\* or busy datasets among p and its descendants), or an undisturbed call
\* with the descendants listed in any order.
Envs(st, p) ==
    LET l0 == CHOOSE l \in Listings(st, p) : TRUE
        calls == IF DescendantsOf(st, p) = {} THEN 2
                 ELSE Cardinality(DescendantsOf(st, p)) + 3
    IN {Env(f, {}, l0) : f \in FaultsUpTo(calls)}
       \cup {Env(NoFault, B, l0) :
               B \in {X \in SUBSET (Existing(st)
                                     \cap ({p} \cup DescendantsOf(st, p))) :
                        X # {} /\ Cardinality(X) <= MaxBusy}}
       \cup {Env(NoFault, {}, l) : l \in Listings(st, p)}

\* What can happen to a handler that issues at most n calls and lists
\* nothing.
FaultEnvs(n) == {Env(f, {}, <<>>) : f \in FaultsUpTo(n)}

\* What can happen to a create: the same, or the pool is out of space.
CreateEnvs ==
    FaultEnvs(4) \cup {Env([at |-> 1, kind |-> "nospace"], {}, <<>>)}

\* A boundary call as the handler saw it; depth is the depth of recursion
\* of the client method that issued it.
Call(name, path, props, ret) ==
    [call |-> name, path |-> path, props |-> props, ret |-> ret, depth |-> 0]

NoProps == [k \in {} |-> ""]

---------------------------------------------------------------------------
(* The API client: each operator is one method of AnsibleBsrApiClient      *)
(* against the appliance, and yields [ret, store, value].                  *)

ApiRet(ret, st, value) == [ret |-> ret, store |-> st, value |-> value]

\* zfs takes the token "none" for an unset value, not Python's "None"
\* (which is why Dataset._dataset_props rewrites None).
AcceptedValue(v) == v # "None"

\* A create that reports success without creating anything.
api_create_dataset_noop(st, ds_path, wire, f) ==
    IF f = "http" THEN ApiRet("HTTPError", st, NoProps)
    ELSE IF f = "nospace" THEN ApiRet("DoesNotHaveEnoughSpace", st, NoProps)
    ELSE IF f = "dqe" THEN ApiRet("Error", st, NoProps)
    ELSE IF st[ds_path].exists THEN ApiRet("Exists", st, NoProps)
    ELSE IF ~HasParentIn(ds_path, Existing(st)) THEN ApiRet("Error", st, NoProps)
    ELSE ApiRet("ok", st, NoProps)

\* create_dataset: "zfs create -o k=v ... path" and _raise_command_failure.
api_create_dataset(st, ds_path, wire, f) ==
    IF f = "http" THEN ApiRet("HTTPError", st, NoProps)
    ELSE IF f = "nospace" THEN ApiRet("DoesNotHaveEnoughSpace", st, NoProps)
    ELSE IF f = "dqe" THEN ApiRet("Error", st, NoProps)
    ELSE IF st[ds_path].exists THEN ApiRet("Exists", st, NoProps)
    ELSE IF ~HasParentIn(ds_path, Existing(st)) THEN ApiRet("Error", st, NoProps)
    ELSE ApiRet("ok", [st EXCEPT ![ds_path] = FreshDataset(wire)], NoProps)

\* set_dataset_properties: refuses an empty dict, else "zfs set k=v ... path".
api_set_dataset_properties(st, ds_path, wire, f) ==
    IF DOMAIN wire = {} THEN ApiRet("ValueError", st, NoProps)
    ELSE IF f = "http" THEN ApiRet("HTTPError", st, NoProps)
    ELSE IF f = "nospace" THEN ApiRet("DoesNotHaveEnoughSpace", st, NoProps)
    ELSE IF f = "dqe" \/ ~st[ds_path].exists THEN ApiRet("Error", st, NoProps)
    ELSE IF \E k \in DOMAIN wire : ~AcceptedValue(wire[k])
    THEN ApiRet("Error", st, NoProps)
    ELSE ApiRet("ok",
                [st EXCEPT ![ds_path].props =
                    [k \in KNOWN_PROPS |->
                        IF k \in DOMAIN wire THEN wire[k] ELSE @[k]]],
                NoProps)

\* get_dataset_properties: "zfs get -Hp all path", parsed.
api_get_dataset_properties(st, ds_path, f) ==
    IF f = "http" THEN ApiRet("HTTPError", st, EmptyDict)
    ELSE IF f \in {"dqe", "nospace"} THEN ApiRet("Error", st, EmptyDict)
    ELSE IF ~st[ds_path].exists THEN ApiRet("DoesNotExist", st, EmptyDict)
    ELSE ApiRet("ok", st, parse_dataset_details(st[ds_path].props))

\* is_existing_dataset: 200 is True, 500 "No such dataset." is False.
api_is_existing_dataset(st, ds_path, f) ==
    IF f = "http" THEN ApiRet("HTTPError", st, FALSE)
    ELSE IF f \in {"dqe", "nospace"} THEN ApiRet("Error", st, FALSE)
    ELSE ApiRet("ok", st, st[ds_path].exists)


\* A destroy endpoint that names only the first descendant.
destroy_endpoint_first_only(st, ds_path, env) ==
    LET below == DescendantsOf(st, ds_path)
        descendants == SelectSeq(env.listing, LAMBDA d : d \in below)
    IN IF ~st[ds_path].exists
       THEN [Descendants |-> <<>>, Error |-> "", store |-> st]
       ELSE IF below # {}
       THEN [Descendants |-> <<Head(descendants)>>,
             Error |-> "filesystem has children", store |-> st]
       ELSE IF ds_path \in env.busy
       THEN [Descendants |-> <<>>, Error |-> "dataset is busy", store |-> st]
       ELSE [Descendants |-> <<>>, Error |-> "",
             store |-> [st EXCEPT ![ds_path] = AbsentDataset]]

\* The destroy endpoint's answer {"Descendants": [...], "Error": "..."} and
\* its effect: a dataset with descendants or a busy one stays, with an
\* error; an absent one is no error; anything else is removed.
destroy_endpoint(st, ds_path, env) ==
    LET below == DescendantsOf(st, ds_path)
        descendants == SelectSeq(env.listing, LAMBDA d : d \in below)
    IN IF ~st[ds_path].exists
       THEN [Descendants |-> <<>>, Error |-> "", store |-> st]
       ELSE IF below # {}
       THEN [Descendants |-> descendants,
             Error |-> "filesystem has children", store |-> st]
       ELSE IF ds_path \in env.busy
       THEN [Descendants |-> <<>>, Error |-> "dataset is busy", store |-> st]
       ELSE [Descendants |-> <<>>, Error |-> "",
             store |-> [st EXCEPT ![ds_path] = AbsentDataset]]

\* The state of AnsibleBsrApiClient.destroy_dataset while it recurses:
\* the store, the calls issued so far, and the exception in flight
\* (exc "none": still running / returned True).
Walk(st, calls, exc, msg, descendants) ==
    [store |-> st, calls |-> calls, exc |-> exc, msg |-> msg,
     descendants |-> descendants]

RECURSIVE api_destroy_dataset(_, _, _, _, _)
RECURSIVE destroy_children(_, _, _, _)

\* AnsibleBsrApiClient.destroy_dataset(ds_path, recursive) entered at the
\* given depth of recursion, continuing the walk w.
api_destroy_dataset(w, ds_path, recursive, env, depth) ==
    LET f == FaultAt(env, Len(w.calls) + 1)
        resp == destroy_endpoint(w.store, ds_path, env)
        ret == IF f = "http" THEN "HTTPError"
               ELSE IF f \in {"dqe", "nospace"} THEN "Error"
               ELSE IF resp.Descendants # <<>> THEN "Descendants"
               ELSE IF resp.Error # "" THEN "ErrorIgnored"
               ELSE "ok"
        calls == Append(w.calls,
                        [Call("destroyDataset", ds_path, NoProps, ret)
                            EXCEPT !.depth = depth])
    IN IF ret = "HTTPError"
       THEN Walk(w.store, calls, "HTTPError", "transport error", <<>>)
       ELSE IF ret = "Error"
       THEN Walk(w.store, calls, "DatasetQueryError", "API Connection Error", <<>>)
       ELSE IF resp.Descendants = <<>> /\ resp.Error = ""
       THEN Walk(resp.store, calls, "none", "", <<>>)
       ELSE IF resp.Descendants # <<>> /\ ~recursive
       THEN Walk(resp.store, calls, "RequiresRecursiveDestroy", resp.Error,
                 resp.Descendants)
       ELSE IF resp.Descendants # <<>> /\ recursive
       THEN LET kids == destroy_children(
                            Walk(resp.store, calls, "none", "", <<>>),
                            children_sorted(resp.Descendants), env, depth + 1)
            IN IF kids.exc # "none" THEN kids
               ELSE api_destroy_dataset(kids, ds_path, FALSE, env, depth + 1)
       ELSE Walk(resp.store, calls, "none", "", <<>>)

\* A loop that stops after the first child.
destroy_children_first_only(w, children, env, depth) ==
    IF children = <<>> THEN w
    ELSE api_destroy_dataset(w, Head(children), TRUE, env, depth)

\* for child_ds in children_sorted: self.destroy_dataset(child_ds, True)
destroy_children(w, children, env, depth) ==
    IF children = <<>> THEN w
    ELSE LET one == api_destroy_dataset(w, Head(children), TRUE, env, depth)
         IN IF one.exc # "none" THEN one
            ELSE destroy_children(one, Tail(children), env, depth)

\* What is_existing_dataset gave its caller: "True", "False" or the error.
ExistsRet(e) ==
    IF e.ret # "ok" THEN e.ret ELSE IF e.value THEN "True" ELSE "False"

---------------------------------------------------------------------------
(* DatasetTaskResult and what a handler call leaves behind.                *)

\* Python's None where a str is expected (DatasetTaskResult.error).
None == "<None>"

\* details: the keys the handlers use, each empty when the handler leaves it
\* out ("note" holds "dataset_absent" or the "operation" text).
Details(outcome, updates, descendants, note) ==
    [outcome |-> outcome, updates |-> updates, descendants |-> descendants,
     note |-> note, added_acl |-> <<>>, removed_acl |-> <<>>]

NoDetails == Details("", EmptyDict, <<>>, "")

\* A result whose failures claim a change.
DatasetTaskResult_failed_changed(succeeded, changed, error, details) ==
    [succeeded |-> succeeded, changed |-> changed \/ ~succeeded,
     error |-> error, details |-> details]

DatasetTaskResult(succeeded, changed, error, details) ==
    [succeeded |-> succeeded, changed |-> changed, error |-> error,
     details |-> details]

\* The call raised instead of returning a DatasetTaskResult.
NoResult == DatasetTaskResult(FALSE, FALSE, "<raised>", NoDetails)

\* A finished handler call: the store it leaves, what it returned, the
\* exception that left it (or "none") and the boundary calls it issued.
Returned(st, res, calls) ==
    [store |-> st, res |-> res, exc |-> "none", calls |-> calls]

Raised(st, exc, calls) ==
    [store |-> st, res |-> NoResult, exc |-> exc, calls |-> calls]

\* The message a DatasetQueryError carries in args[0] (the command's stderr).
Stderr(ret) ==
    CASE ret = "Exists" -> "cannot create: dataset already exists"
      [] ret = "DoesNotHaveEnoughSpace" -> "cannot create: out of space"
      [] ret = "DoesNotExist" -> "cannot open: dataset does not exist"
      [] OTHER -> "command failed"

---------------------------------------------------------------------------
(* Dataset (api_datasets.py).  Each operator is one method called on a     *)
(* freshly constructed Dataset(), as both modules do.                      *)

\* Dataset._seed_with_default_props on a model whose props is `props`
\* (EmptyDict standing for None: both end up holding every default).
seed_with_default_props(props) ==
    [k \in (DOMAIN props) \cup KNOWN_PROPS |->
        IF k \in KNOWN_PROPS THEN DEFAULT_DATASET_PROPS[k] ELSE props[k]]

\* The Exists fallback of Dataset.create_dataset (api_datasets.py 347-383).
create_existing(st, ds_path, props, env, calls) ==
    LET g1 == api_get_dataset_properties(st, ds_path, FaultAt(env, 2))
        c2 == Append(calls, Call("getProperties", ds_path, NoProps, g1.ret))
        wire == dataset_props(props)
        s == api_set_dataset_properties(st, ds_path, wire, FaultAt(env, 3))
        c3 == Append(c2, Call("setProperties", ds_path, wire, s.ret))
        g2 == api_get_dataset_properties(s.store, ds_path, FaultAt(env, 4))
        c4 == Append(c3, Call("getProperties", ds_path, NoProps, g2.ret))
        diff == ItemsMinus(g2.value, g1.value)
    IN IF g1.ret = "HTTPError" THEN Raised(st, "HTTPError", c2)
       ELSE IF g1.ret # "ok" THEN Raised(st, "DatasetQueryError", c2)
       ELSE IF s.ret = "ValueError" THEN Raised(st, "ValueError", c3)
       ELSE IF s.ret = "HTTPError" THEN Raised(st, "HTTPError", c3)
       ELSE IF s.ret # "ok"
       THEN Returned(st, DatasetTaskResult(FALSE, FALSE, Stderr(s.ret), NoDetails), c3)
       ELSE IF g2.ret = "HTTPError" THEN Raised(s.store, "HTTPError", c4)
       ELSE IF g2.ret # "ok"
       THEN Returned(s.store,
                     DatasetTaskResult(FALSE, FALSE, Stderr(g2.ret), NoDetails), c4)
       ELSE IF diff # EmptyDict
       THEN Returned(s.store,
                     DatasetTaskResult(TRUE, TRUE, None,
                         Details("modified", diff, <<>>, "")), c4)
       ELSE Returned(s.store,
                     DatasetTaskResult(TRUE, FALSE, None,
                         Details("unchanged", EmptyDict, <<>>, "")), c4)

\* Dataset.create_dataset(ds_path, api_client, **props).
create_dataset(st, ds_path, props, env) ==
    IF UnknownKeys(props) # {}
    THEN Returned(st,
             DatasetTaskResult(FALSE, FALSE,
                 "Cannot update '" \o (CHOOSE k \in UnknownKeys(props) : TRUE)
                     \o "'; because it is not a known property name",
                 NoDetails),
             <<>>)
    ELSE LET seeded == seed_with_default_props(EmptyDict)
             merged == IF props # EmptyDict THEN merge(seeded, props) ELSE seeded
             wire == dataset_props(merged)
             c == api_create_dataset(st, ds_path, wire, FaultAt(env, 1))
             calls == <<Call("createDataset", ds_path, wire, c.ret)>>
         IN IF c.ret = "ok"
            THEN Returned(c.store,
                     DatasetTaskResult(TRUE, TRUE, None,
                         Details("created", EmptyDict, <<>>, "")), calls)
            ELSE IF c.ret = "HTTPError" THEN Raised(st, "HTTPError", calls)
            ELSE IF c.ret = "Exists"
            THEN create_existing(st, ds_path, props, env, calls)
            ELSE Returned(st,
                     DatasetTaskResult(FALSE, FALSE, Stderr(c.ret), NoDetails),
                     calls)


\* f"{k}={v}" for a value handed to the client as it is.
PyStr(v) == IF v = NoneV THEN "None" ELSE v.v

\* Dataset.set_dataset_properties(ds_path, api_client, **props).
set_dataset_properties(st, ds_path, props, env) ==
    LET g == api_get_dataset_properties(st, ds_path, FaultAt(env, 1))
        c1 == <<Call("getProperties", ds_path, NoProps, g.ret)>>
        current_properties == IF g.ret = "ok" THEN g.value ELSE EmptyDict
        changes == ItemsMinus(props, Restrict(current_properties, DOMAIN props))
        wire == [k \in DOMAIN changes |-> PyStr(changes[k])]
        s == api_set_dataset_properties(st, ds_path, wire, FaultAt(env, 2))
        c2 == Append(c1, Call("setProperties", ds_path, wire, s.ret))
    IN IF g.ret = "HTTPError" THEN Raised(st, "HTTPError", c1)
       ELSE IF g.ret = "DoesNotExist"
       THEN Returned(st,
                DatasetTaskResult(FALSE, FALSE,
                    "Unable to obtain current properties because dataset does not exist",
                    Details("", EmptyDict, <<>>, "dataset_absent")), c1)
       ELSE IF \E k \in DOMAIN props : k \notin DOMAIN current_properties
       THEN Raised(st, "KeyError", c1)
       ELSE IF changes = EmptyDict
       THEN Returned(st, DatasetTaskResult(TRUE, FALSE, None, NoDetails), c1)
       ELSE IF s.ret = "HTTPError" THEN Raised(st, "HTTPError", c2)
       ELSE IF s.ret # "ok" THEN Raised(st, "DatasetQueryError", c2)
       ELSE Returned(s.store,
                DatasetTaskResult(TRUE, TRUE, None,
                    Details("", changes, <<>>, "")), c2)

\* Dataset.destroy_dataset(ds_path, api_client, recursive).
destroy_dataset(st, ds_path, recursive, env) ==
    LET e == api_is_existing_dataset(st, ds_path, FaultAt(env, 1))
        c1 == <<Call("datasetExists", ds_path, NoProps, ExistsRet(e))>>
        w == api_destroy_dataset(Walk(st, c1, "none", "", <<>>),
                                 ds_path, recursive, env, 0)
    IN IF e.ret = "HTTPError" THEN Raised(st, "HTTPError", c1)
       ELSE IF e.ret # "ok" THEN Raised(st, "DatasetQueryError", c1)
       ELSE IF ~e.value
       THEN Returned(st,
                DatasetTaskResult(TRUE, FALSE, None,
                    Details("", EmptyDict, <<>>, "dataset_absent")), c1)
       ELSE IF w.exc = "RequiresRecursiveDestroy"
       THEN Returned(w.store,
                DatasetTaskResult(FALSE, FALSE, w.msg,
                    Details("", EmptyDict, w.descendants, "")), w.calls)
       ELSE IF w.exc = "DatasetQueryError"
       THEN Returned(w.store,
                DatasetTaskResult(FALSE, FALSE, w.msg, NoDetails), w.calls)
       ELSE IF w.exc # "none" THEN Raised(w.store, w.exc, w.calls)
       ELSE Returned(w.store,
                DatasetTaskResult(TRUE, TRUE, None, NoDetails), w.calls)

\* The entries of xs with no equal entry in ys, in order.
NotIn(xs, ys) == SelectSeq(xs, LAMBDA a : a \notin Range(ys))

\* Dataset.set_permissions(ds_path, acl, owner_sid, owner_group_sid,
\* api_client): look the ACL up, apply the new one, compare.
set_permissions(st, ds_path, acl, owner_sid, owner_group_sid, env) ==
    LET f1 == FaultAt(env, 1)
        r1 == IF f1 = "http" THEN "HTTPError"
              ELSE IF f1 # "none" THEN "Error"
              ELSE IF ~st[ds_path].exists THEN "DoesNotExist"
              ELSE "ok"
        c1 == <<Call("getPerms", ds_path, NoProps, r1)>>
        old_settings == st[ds_path].perms
        f2 == FaultAt(env, 2)
        r2 == IF f2 = "http" THEN "HTTPError"
              ELSE IF f2 # "none" THEN "Error"
              ELSE "ok"
        c2 == Append(c1, Call("applyPerms", ds_path, NoProps, r2))
        new_settings == Perms(acl, owner_sid, owner_group_sid)
        st2 == [st EXCEPT ![ds_path].perms = new_settings]
        removed == NotIn(old_settings.acl, new_settings.acl)
        added == NotIn(new_settings.acl, old_settings.acl)
        owner_sid_changed == old_settings.owner_sid # new_settings.owner_sid
        owner_group_sid_changed ==
            old_settings.owner_group_sid # new_settings.owner_group_sid
        changed == owner_sid_changed \/ owner_group_sid_changed
                   \/ added # <<>> \/ removed # <<>>
    IN IF r1 = "HTTPError" THEN Raised(st, "HTTPError", c1)
       ELSE IF r1 # "ok"
       THEN Returned(st,
                DatasetTaskResult(FALSE, FALSE,
                    IF r1 = "DoesNotExist"
                    THEN "unable to obtain ACL because dataset " \o ds_path
                             \o " does not appear to exist"
                    ELSE Stderr(r1),
                    Details("", EmptyDict, <<>>,
                            "lookup ACLs before making changes")), c1)
       ELSE IF r2 = "HTTPError" THEN Raised(st, "HTTPError", c2)
       ELSE IF r2 # "ok"
       THEN Returned(st,
                DatasetTaskResult(FALSE, FALSE, Stderr(r2),
                    Details("", EmptyDict, <<>>, "application of ACLs")), c2)
       ELSE Returned(st2,
                DatasetTaskResult(TRUE, changed, "",
                    [Details("", EmptyDict, <<>>, "")
                        EXCEPT !.added_acl = added, !.removed_acl = removed]),
                c2)

\* The properties configure_smb_share compares: everything in
\* ALL_POSSIBLE_PROPS is filtered out except these two.
ShareProps == {"sharesmb", "racktop:ub"}

\* Dataset(props).configure_smb_share(ds_path, api_client).
configure_smb_share(st, props, ds_path, env) ==
    LET e == api_is_existing_dataset(st, ds_path, FaultAt(env, 1))
        c1 == <<Call("datasetExists", ds_path, NoProps, ExistsRet(e))>>
        g1 == api_get_dataset_properties(st, ds_path, FaultAt(env, 2))
        c2 == Append(c1, Call("getProperties", ds_path, NoProps, g1.ret))
        props_before == Restrict(g1.value, ShareProps)
        wire == dataset_props(props)
        s == api_set_dataset_properties(st, ds_path, wire, FaultAt(env, 3))
        c3 == Append(c2, Call("setProperties", ds_path, wire, s.ret))
        g2 == api_get_dataset_properties(s.store, ds_path, FaultAt(env, 4))
        c4 == Append(c3, Call("getProperties", ds_path, NoProps, g2.ret))
        props_after == Restrict(g2.value, ShareProps)
        changed == ItemsMinus(props_after, props_before)
    IN IF e.ret = "HTTPError" THEN Raised(st, "HTTPError", c1)
       ELSE IF e.ret # "ok" THEN Raised(st, "DatasetQueryError", c1)
       ELSE IF ~e.value
       THEN Returned(st,
                DatasetTaskResult(FALSE, FALSE,
                    "cannot share non-existent dataset " \o ds_path,
                    NoDetails), c1)
       ELSE IF g1.ret = "HTTPError" THEN Raised(st, "HTTPError", c2)
       ELSE IF g1.ret # "ok" THEN Raised(st, "DatasetQueryError", c2)
       ELSE IF s.ret = "ValueError" THEN Raised(st, "ValueError", c3)
       ELSE IF s.ret = "HTTPError" THEN Raised(st, "HTTPError", c3)
       ELSE IF s.ret # "ok"
       THEN Returned(st,
                DatasetTaskResult(FALSE, FALSE, Stderr(s.ret),
                    Details("", EmptyDict, <<>>,
                            "setting dataset share properties")), c3)
       ELSE IF g2.ret = "HTTPError" THEN Raised(s.store, "HTTPError", c4)
       ELSE IF g2.ret # "ok" THEN Raised(s.store, "DatasetQueryError", c4)
       ELSE Returned(s.store,
                DatasetTaskResult(TRUE, changed # EmptyDict, "",
                    Details("", changed, <<>>, "")), c4)


---------------------------------------------------------------------------
(* Text.  An access-list token is a Python str, held as the sequence of    *)
(* its characters so that it can be split and parsed as the code does.     *)

Digits == {"0", "1", "2", "3", "4", "5", "6", "7", "8", "9"}

Letters ==
    {"a", "b", "c", "d", "e", "f", "g", "h", "i", "j", "k", "l", "m", "n",
     "o", "p", "q", "r", "s", "t", "u", "v", "w", "x", "y", "z"}

DigitVal(c) ==
    CASE c = "0" -> 0 [] c = "1" -> 1 [] c = "2" -> 2 [] c = "3" -> 3
      [] c = "4" -> 4 [] c = "5" -> 5 [] c = "6" -> 6 [] c = "7" -> 7
      [] c = "8" -> 8 [] c = "9" -> 9

\* int(cs) for a str of decimal digits.
RECURSIVE DecVal(_)
DecVal(cs) ==
    IF cs = <<>> THEN 0
    ELSE 10 * DecVal(SubSeq(cs, 1, Len(cs) - 1)) + DigitVal(cs[Len(cs)])

\* cs.isdigit()
isdigit(cs) == cs # <<>> /\ \A i \in 1..Len(cs) : cs[i] \in Digits

\* cs.split(sep)
RECURSIVE Split(_, _)
Split(cs, sep) ==
    IF \A i \in 1..Len(cs) : cs[i] # sep THEN <<cs>>
    ELSE LET i == CHOOSE i \in 1..Len(cs) :
                     cs[i] = sep /\ \A j \in 1..(i - 1) : cs[j] # sep
         IN <<SubSeq(cs, 1, i - 1)>> \o Split(SubSeq(cs, i + 1, Len(cs)), sep)

\* The str with the characters cs.
RECURSIVE Text(_)
Text(cs) == IF cs = <<>> THEN "" ELSE Head(cs) \o Text(Tail(cs))

\* sep.join(strs)
RECURSIVE Join(_, _)
Join(strs, sep) ==
    IF strs = <<>> THEN ""
    ELSE IF Len(strs) = 1 THEN strs[1]
    ELSE strs[1] \o sep \o Join(Tail(strs), sep)

---------------------------------------------------------------------------
(* ipaddress.IPv4Address and ipaddress.IPv4Network, as netacl.py uses      *)
(* them.  An address is its four octets; masks are compared bit by bit.    *)

\* ipaddress._parse_octet
OctetOk(o) ==
    /\ isdigit(o)
    /\ Len(o) <= 3
    /\ ~(Len(o) > 1 /\ o[1] = "0")
    /\ DecVal(o) <= 255

\* ipaddress.IPv4Address(str): ok, or AddressValueError.
IPv4Address(cs) ==
    LET octets == Split(cs, ".")
    IN IF \E i \in 1..Len(cs) : cs[i] = "/"
       THEN [ok |-> FALSE, octets |-> <<>>]
       ELSE IF cs = <<>> \/ Len(octets) # 4
               \/ \E i \in 1..4 : ~OctetOk(octets[i])
       THEN [ok |-> FALSE, octets |-> <<>>]
       ELSE [ok |-> TRUE, octets |-> [i \in 1..4 |-> DecVal(octets[i])]]

\* The 8 bits of an octet, most significant first.
OctetBits(n) == [i \in 1..8 |-> (n \div (2 ^ (8 - i))) % 2]

\* The 32 bits of an address.
Bits(octets) ==
    OctetBits(octets[1]) \o OctetBits(octets[2]) \o OctetBits(octets[3])
        \o OctetBits(octets[4])

\* str(IPv4Address)
AddrStr(octets) ==
    Join([i \in 1..4 |-> ToString(octets[i])], ".")

\* IPv4Address.is_loopback: in 127.0.0.0/8.
is_loopback(octets) == octets[1] = 127

\* ipaddress._prefix_from_ip_int on the bits of a mask: the prefix length
\* when the bits are ones followed by zeros, else -1.
PrefixFromBits(bits) ==
    LET ones == Cardinality({i \in 1..32 : bits[i] = 1})
    IN IF \A i \in 1..32 : bits[i] = (IF i <= ones THEN 1 ELSE 0)
       THEN ones ELSE -1

\* IPv4Network._make_netmask(str): a prefix length 0..32, else a netmask,
\* else a hostmask; -1 is NetmaskValueError.
make_netmask(mask) ==
    LET from_ip(ip, asNet, asHost) ==
            IF ~ip.ok THEN -1
            ELSE IF asNet >= 0 THEN asNet
            ELSE asHost
        of_bits(ip, bits) ==
            from_ip(ip, PrefixFromBits(bits),
                    PrefixFromBits([i \in 1..32 |-> 1 - bits[i]]))
        of_address(ip) == of_bits(ip, Bits(ip.octets))
    IN IF isdigit(mask) /\ DecVal(mask) <= 32
       THEN DecVal(mask)
       ELSE of_address(IPv4Address(mask))

\* ipaddress.IPv4Network(str), strict: ok, or the ValueError it raises
\* ("AddressValueError", "NetmaskValueError", or "ValueError" for host
\* bits set, with its message).
IPv4Network(cs) ==
    LET bad(err, msg) ==
            [ok |-> FALSE, err |-> err, msg |-> msg, octets |-> <<>>,
             prefixlen |-> 0]
        strict(addr, prefixlen, bits) ==
            IF \E i \in (prefixlen + 1)..32 : bits[i] = 1
            THEN bad("ValueError",
                     AddrStr(addr.octets) \o "/" \o ToString(prefixlen)
                         \o " has host bits set")
            ELSE [ok |-> TRUE, err |-> "", msg |-> "",
                  octets |-> addr.octets, prefixlen |-> prefixlen]
        masked(addr, prefixlen) ==
            IF prefixlen < 0 THEN bad("NetmaskValueError", "invalid netmask")
            ELSE strict(addr, prefixlen, Bits(addr.octets))
        network(parts, addr) ==
            IF ~addr.ok THEN bad("AddressValueError", "invalid address")
            ELSE masked(addr, IF Len(parts) = 1 THEN 32
                              ELSE make_netmask(parts[2]))
        split(parts) ==
            IF Len(parts) > 2
            THEN bad("AddressValueError", "Only one '/' permitted")
            ELSE network(parts, IPv4Address(parts[1]))
    IN split(Split(cs, "/"))

\* str(IPv4Network)
NetStr(n) == AddrStr(n.octets) \o "/" \o ToString(n.prefixlen)

\* addr in net: the address masked with the netmask is the network address.
InNet(bits, n) ==
    \A i \in 1..n.prefixlen : bits[i] = Bits(n.octets)[i]

\* The last address of a network.
BroadcastBits(n) ==
    [i \in 1..32 |-> IF i <= n.prefixlen THEN Bits(n.octets)[i] ELSE 1]

\* An overlap test that looks for the ends of a inside b only.
overlaps_one_way(a, b) ==
    InNet(Bits(a.octets), b) \/ InNet(BroadcastBits(a), b)

\* IPv4Network.overlaps
overlaps(a, b) ==
    \/ InNet(Bits(b.octets), a) \/ InNet(BroadcastBits(b), a)
    \/ InNet(Bits(a.octets), b) \/ InNet(BroadcastBits(a), b)


---------------------------------------------------------------------------
(* netacl.py                                                               *)

\* An IPNetHostList, or the exception its constructor raised.
HostList(hosts, nets, others) ==
    [exc |-> "none", msg |-> "", hosts |-> hosts, nets |-> nets,
     others |-> others]

ListError(exc, msg) ==
    [exc |-> exc, msg |-> msg, hosts |-> <<>>, nets |-> <<>>, others |-> <<>>]

StripAt(elem) == IF elem[1] = "@" THEN Tail(elem) ELSE elem

\* IPNetHostList._split_nets_and_hosts, continuing with the entries elems
\* from the list acc built so far.
RECURSIVE split_nets_and_hosts(_, _)
split_nets_and_hosts(acc, elems) ==
    LET net(n, rest) ==
            IF ~n.ok THEN ListError(n.err, n.msg)
            ELSE split_nets_and_hosts(
                     [acc EXCEPT !.nets =
                         Append(@, [octets |-> n.octets,
                                    prefixlen |-> n.prefixlen])],
                     rest)
        host(h, rest) ==
            IF ~h.ok THEN ListError("AddressValueError", "invalid address")
            ELSE split_nets_and_hosts(
                     [acc EXCEPT !.hosts = Append(@, h.octets)], rest)
        classify(elem, rest) ==
            IF elem = <<>> THEN split_nets_and_hosts(acc, rest)
            ELSE IF elem[1] \in Letters
            THEN split_nets_and_hosts(
                     [acc EXCEPT !.others = Append(@, elem)], rest)
            ELSE IF \E i \in 1..Len(elem) : elem[i] = "/"
            THEN net(IPv4Network(StripAt(elem)), rest)
            ELSE host(IPv4Address(StripAt(elem)), rest)
    IN IF elems = <<>> THEN acc
       ELSE classify(Head(elems), Tail(elems))

\* IPNetHostList(addrs) for a list of token strings: the tokens are taken
\* as they are and classified.
IPNetHostList_from_list(addrs) ==
    split_nets_and_hosts(HostList(<<>>, <<>>, <<>>), addrs)

\* What a step of the share code ends with: "none", or the exception.
Outcome(exc, msg) == [exc |-> exc, msg |-> msg]

\* IP4_RE.match(token): the token starts with three groups of one to three
\* digits (a group of three being at most 255), each followed by ".", and
\* then a digit.  Nothing anchors the end of the match.
IP4_RE_match(cs) ==
    LET groups(parts) ==
            /\ Len(parts) >= 4
            /\ \A i \in 1..3 :
                  /\ isdigit(parts[i])
                  /\ Len(parts[i]) <= 3
                  /\ (Len(parts[i]) = 3 => DecVal(parts[i]) <= 255)
            /\ parts[4] # <<>>
            /\ parts[4][1] \in Digits
    IN groups(Split(cs, "."))

\* IPNetHostList._validate_addr: "none", or the InvalidAddressSpecification
\* it raises with its message.
validate_addr(cs) ==
    LET net(n) ==
            IF n.ok THEN Outcome("none", "")
            ELSE Outcome("InvalidAddressSpecification", n.msg)
        host(h) ==
            IF ~h.ok
            THEN Outcome("InvalidAddressSpecification", "invalid address")
            ELSE IF is_loopback(h.octets)
            THEN Outcome("InvalidAddressSpecification",
                         "Local address " \o Text(cs) \o " not allowed")
            ELSE Outcome("none", "")
    IN IF \E i \in 1..Len(cs) : cs[i] = "/"
       THEN net(IPv4Network(cs))
       ELSE host(IPv4Address(cs))

\* IPNetHostList._list_from_addrs_string, continuing with the tokens left
\* from the list acc built so far: the tuple of tokens, or the exception
\* raised on the way.
RECURSIVE list_from_tokens(_, _)
list_from_tokens(acc, tokens) ==
    LET checked(v, token, rest) ==
            IF v.exc # "none"
            THEN [exc |-> v.exc, msg |-> v.msg, list |-> <<>>]
            ELSE list_from_tokens(Append(acc, token), rest)
        take(token, rest) ==
            IF token = <<>> THEN list_from_tokens(acc, rest)
            ELSE IF token[1] = "@"
            THEN checked(validate_addr(Tail(token)), token, rest)
            ELSE IF IP4_RE_match(token)
            THEN checked(validate_addr(token), <<"@">> \o token, rest)
            ELSE list_from_tokens(Append(acc, token), rest)
    IN IF tokens = <<>> THEN [exc |-> "none", msg |-> "", list |-> acc]
       ELSE take(Head(tokens), Tail(tokens))

\* A tokenizer that reads the first token only.
list_from_addrs_string_first_only(cs) ==
    list_from_tokens(<<>>, <<Head(Split(cs, ":"))>>)

list_from_addrs_string(cs) == list_from_tokens(<<>>, Split(cs, ":"))

\* IPNetHostList(addrs) for a str.
IPNetHostList_from_str(cs) ==
    LET split(l) ==
            IF l.exc # "none" THEN ListError(l.exc, l.msg)
            ELSE split_nets_and_hosts(HostList(<<>>, <<>>, <<>>), l.list)
    IN split(list_from_addrs_string(cs))

\* str(n) for an int n >= 0, as characters.
RECURSIVE DecChars(_)
DecChars(n) ==
    LET digit(d) ==
            CASE d = 0 -> "0" [] d = 1 -> "1" [] d = 2 -> "2" [] d = 3 -> "3"
              [] d = 4 -> "4" [] d = 5 -> "5" [] d = 6 -> "6" [] d = 7 -> "7"
              [] d = 8 -> "8" [] d = 9 -> "9"
    IN IF n < 10 THEN <<digit(n)>>
       ELSE Append(DecChars(n \div 10), digit(n % 10))

\* sep.join(strs) on character sequences.
RECURSIVE JoinChars(_, _)
JoinChars(strs, sep) ==
    IF strs = <<>> THEN <<>>
    ELSE IF Len(strs) = 1 THEN strs[1]
    ELSE strs[1] \o <<sep>> \o JoinChars(Tail(strs), sep)

\* A rendering with the hosts in front of the networks.
str_chars_hosts_first(l) ==
    LET addr(octets) == JoinChars([i \in 1..4 |-> DecChars(octets[i])], ".")
        net(n) == addr(n.octets) \o <<"/">> \o DecChars(n.prefixlen)
    IN JoinChars([i \in 1..Len(l.hosts) |-> <<"@">> \o addr(l.hosts[i])]
                 \o [i \in 1..Len(l.nets) |-> <<"@">> \o net(l.nets[i])]
                 \o l.others,
                 ":")

\* IPNetHostList.__str__, as characters; addr and net are str(IPv4Address)
\* and str(IPv4Network).
str_chars(l) ==
    LET addr(octets) == JoinChars([i \in 1..4 |-> DecChars(octets[i])], ".")
        net(n) == addr(n.octets) \o <<"/">> \o DecChars(n.prefixlen)
    IN JoinChars([i \in 1..Len(l.nets) |-> <<"@">> \o net(l.nets[i])]
                 \o [i \in 1..Len(l.hosts) |-> <<"@">> \o addr(l.hosts[i])]
                 \o l.others,
                 ":")

\* IPNetHostList.__str__
HostListStr(l) == Text(str_chars(l))

\* The first pair (i, j), in loop order (outer index first), of a set of
\* index pairs; <<0, 0>> when the set is empty.
FirstPair(hits) ==
    IF hits = {} THEN <<0, 0>>
    ELSE CHOOSE ij \in hits :
             \A kl \in hits :
                 ij[1] < kl[1] \/ (ij[1] = kl[1] /\ ij[2] <= kl[2])

\* raise_on_conflict(ro_list, rw_list): the message of the
\* InvalidAddressSpecification it raises, or "" when it returns.
raise_on_conflict(ro, rw) ==
    LET hh == FirstPair({ij \in (1..Len(ro.hosts)) \X (1..Len(rw.hosts)) :
                            ro.hosts[ij[1]] = rw.hosts[ij[2]]})
        nn == FirstPair({ij \in (1..Len(ro.nets)) \X (1..Len(rw.nets)) :
                            overlaps(ro.nets[ij[1]], rw.nets[ij[2]])})
        hn == FirstPair({ij \in (1..Len(ro.hosts)) \X (1..Len(rw.nets)) :
                            InNet(Bits(ro.hosts[ij[1]]), rw.nets[ij[2]])})
        nh == FirstPair({ij \in (1..Len(rw.hosts)) \X (1..Len(ro.nets)) :
                            InNet(Bits(rw.hosts[ij[1]]), ro.nets[ij[2]])})
        oo == FirstPair({ij \in (1..Len(ro.others)) \X (1..1) :
                            ro.others[ij[1]] \in Range(rw.others)})
    IN IF hh[1] > 0
       THEN "Found host address " \o AddrStr(ro.hosts[hh[1]])
                \o " in read/write and read-only lists"
       ELSE IF nn[1] > 0
       THEN "Found network address " \o NetStr(ro.nets[nn[1]])
                \o " in read/write and read-only lists"
       ELSE IF hn[1] > 0
       THEN "Found host address " \o AddrStr(ro.hosts[hn[1]])
                \o " in read-only list belonging to network address "
                \o NetStr(rw.nets[hn[2]]) \o " in read/write list"
       ELSE IF nh[1] > 0
       THEN "Found host address " \o AddrStr(rw.hosts[nh[1]])
                \o " in read/write list belonging to network address "
                \o NetStr(ro.nets[nh[2]]) \o " in read-only list"
       ELSE IF oo[1] > 0
       THEN "Found name " \o Text(ro.others[oo[1]])
                \o " in read-only and read/write lists"
       ELSE ""

---------------------------------------------------------------------------
(* smb.py.  A Python bool is "True" or "False"; anything else is not one.  *)

SMBShare(name, abe, csc, encrypt, read_only, read_write, none, ub) ==
    [name |-> name, abe |-> abe, csc |-> csc, encrypt |-> encrypt,
     read_only |-> read_only, read_write |-> read_write, none |-> none,
     ub |-> ub]

isbool(x) == x \in {"True", "False"}

\* The list SMBShare.read_only_list() (and its siblings) returns for the
\* field value addrs: None for an empty value, else IPNetHostList(addrs).
NoList == ListError("None", "")

access_list(addrs) ==
    IF addrs = <<>> THEN NoList ELSE IPNetHostList_from_list(addrs)

IsValueError(exc) ==
    exc \in {"ValueError", "AddressValueError", "NetmaskValueError"}

\* SMBShare.validate_access_lists
validate_access_lists(share) ==
    LET conflicting(conflict) ==
            IF conflict # ""
            THEN Outcome("InvalidAddressSpecification", conflict)
            ELSE Outcome("none", "")
        validate(ro, rw) ==
            IF ro.exc \notin {"none", "None"} THEN Outcome(ro.exc, ro.msg)
            ELSE IF rw.exc \notin {"none", "None"}
            THEN Outcome(rw.exc, rw.msg)
            ELSE IF ro.exc = "None" \/ rw.exc = "None"
            THEN Outcome("AttributeError",
                         "'NoneType' object has no attribute 'hosts'")
            ELSE conflicting(raise_on_conflict(ro, rw))
    IN validate(access_list(share.read_only), access_list(share.read_write))

\* The clause "<key>=<list>" of one access list: absent for None, and the
\* constructor's exception if it raises.
Clause(key, addrs) ==
    LET clause(l) ==
            IF l.exc = "None"
            THEN [exc |-> "none", msg |-> "", parts |-> <<>>]
            ELSE IF l.exc # "none"
            THEN [exc |-> l.exc, msg |-> l.msg, parts |-> <<>>]
            ELSE [exc |-> "none", msg |-> "",
                  parts |-> <<key \o "=" \o HostListStr(l)>>]
    IN clause(access_list(addrs))

\* SMBShare.property_pairs: the dict, or the exception raised on the way.
property_pairs(share) ==
    LET raise(exc, msg) == [exc |-> exc, msg |-> msg, props |-> EmptyDict]
        pairs(ro, rw, no) ==
            IF ~isbool(share.abe)
            THEN raise("TypeError",
                       "Invalid type for abe option: " \o share.abe)
            ELSE IF share.csc \notin {"manual", "auto", "vdo", "disabled"}
            THEN raise("ValueError",
                       "Invalid value for csc option: " \o share.csc)
            ELSE IF share.encrypt \notin {"enabled", "disabled", "required"}
            THEN raise("ValueError",
                       "Invalid value for encrypt option: " \o share.encrypt)
            ELSE IF ro.exc # "none" THEN raise(ro.exc, ro.msg)
            ELSE IF rw.exc # "none" THEN raise(rw.exc, rw.msg)
            ELSE IF no.exc # "none" THEN raise(no.exc, no.msg)
            ELSE IF ~isbool(share.ub)
            THEN raise("TypeError",
                       "Invalid type for racktop:ub option: " \o share.abe)
            ELSE [exc |-> "none", msg |-> "",
                  props |->
                     [k \in ShareProps |->
                        IF k = "sharesmb"
                        THEN StrV(Join(<<"name=" \o share.name,
                                         "abe=" \o (IF share.abe = "True"
                                                    THEN "true" ELSE "false"),
                                         "csc=" \o share.csc,
                                         "encrypt=" \o share.encrypt>>
                                       \o ro.parts \o rw.parts \o no.parts,
                                       ","))
                        ELSE StrV(IF share.ub = "True" THEN "on" ELSE "off")]]
    IN pairs(Clause("ro", share.read_only), Clause("rw", share.read_write),
             Clause("none", share.none))

\* SMBShare.__str__: the clauses of property_pairs behind "sharesmb=", then
\* the monitoring flag; the same checks in the same order.
smb_str(share) ==
    LET text(p) ==
            IF p.exc # "none" THEN [exc |-> p.exc, msg |-> p.msg, text |-> ""]
            ELSE [exc |-> "none", msg |-> "",
                  text |-> "sharesmb=" \o p.props["sharesmb"].v
                               \o " racktop:ub=" \o p.props["racktop:ub"].v]
    IN text(property_pairs(share))

\* nfs.py.  NFSShare.__str__: the text, or the exception raised on the way.
\* An NFSShare is the record of its eight fields; root_list() looks at
\* read_write to decide whether there is a root list.
nfs_str(share) ==
    LET raise(exc, msg) == [exc |-> exc, msg |-> msg, text |-> ""]
        root_clause(l) ==
            IF share.read_write = <<>>
            THEN [exc |-> "none", msg |-> "", parts |-> <<>>]
            ELSE IF l.exc # "none"
            THEN [exc |-> l.exc, msg |-> l.msg, parts |-> <<>>]
            ELSE [exc |-> "none", msg |-> "",
                  parts |-> <<"root=" \o HostListStr(l)>>]
        str(ro, rw, no, root) ==
            IF share.sec_mode = ""
            THEN raise("ValueError", "Security mode cannot be empty")
            ELSE IF share.sec_mode
                      \notin {"sys", "dh", "none", "krb5", "krb5i", "krb5p"}
            THEN raise("ValueError",
                       "Invalid value for sec option: " \o share.sec_mode)
            ELSE IF ~isbool(share.hideds)
            THEN raise("TypeError",
                       "Invalid type for hideds option: " \o share.ub)
            ELSE IF ro.exc # "none" THEN raise(ro.exc, ro.msg)
            ELSE IF rw.exc # "none" THEN raise(rw.exc, rw.msg)
            ELSE IF no.exc # "none" THEN raise(no.exc, no.msg)
            ELSE IF root.exc # "none" THEN raise(root.exc, root.msg)
            ELSE IF ~isbool(share.ub)
            THEN raise("TypeError",
                       "Invalid type for racktop:ub option: " \o share.ub)
            ELSE [exc |-> "none", msg |-> "",
                  text |->
                     "sharenfs="
                         \o Join((IF share.sec_label # "False"
                                  THEN <<"seclabel">> ELSE <<>>)
                                 \o <<"anon=nobody",
                                      "sec=" \o share.sec_mode>>
                                 \o (IF share.hideds = "False"
                                     THEN <<"nohide">> ELSE <<>>)
                                 \o ro.parts \o rw.parts \o no.parts
                                 \o root.parts,
                                 ",")
                         \o " racktop:ub="
                         \o (IF share.ub = "True" THEN "on" ELSE "off")]
    IN str(Clause("ro", share.read_only), Clause("rw", share.read_write),
           Clause("none", share.none),
           root_clause(IPNetHostList_from_list(share.root)))

---------------------------------------------------------------------------
(* The two Ansible modules.  A run ends in exit_json or fail_json with the *)
(* result dict's "changed", or in an exception nothing catches, which      *)
(* Ansible reports as a failed task without "changed".                     *)

\* How a module run ended: `at` names the statement that ended it.
Exit(failed, changed, at) == [failed |-> failed, changed |-> changed, at |-> at]

NoExit == Exit(FALSE, FALSE, "")

\* A finished module run: the handler outcome it is built from, with the
\* calls of all the handlers it ran, and how it ended.
Run(h, calls, exit) ==
    [store |-> h.store, res |-> h.res, exc |-> h.exc, calls |-> calls,
     exit |-> exit]

\* A run that ended before any handler was called.
EarlyRun(st, exit) == Run(Returned(st, NoResult, <<>>), <<>>, exit)

\* The props dict dataset.py builds from its parameters (defaults, and the
\* quota the user gave).
DatasetModuleProps(quota) ==
    [k \in {"aclmode", "aclinherit", "atime", "quota", "refquota",
            "reservation", "refreservation", "nbmand",
            "racktop:storage_profile"} |->
        CASE k \in {"aclmode", "aclinherit"} -> StrV("passthrough")
          [] k \in {"atime", "nbmand"} -> StrV("on")
          [] k = "quota" -> quota
          [] k \in {"refquota", "reservation", "refreservation"} -> NoneV
          [] k = "racktop:storage_profile" -> StrV("general_filesystem")]

\* dataset.py main() with the parameters params: result["changed"] is the
\* handler's resp.changed, the run fails when resp.succeeded is false, and
\* an exception of the handler is not caught.
dataset_main(st, params, env) ==
    LET exit(resp) ==
            IF resp.exc # "none"
            THEN Run(resp, resp.calls, Exit(TRUE, FALSE, "exception"))
            ELSE IF resp.res.succeeded
            THEN Run(resp, resp.calls,
                     Exit(FALSE, resp.res.changed, "exit_json"))
            ELSE Run(resp, resp.calls,
                     Exit(TRUE, resp.res.changed, "fail_json"))
    IN IF params.check_mode
       THEN EarlyRun(st, Exit(FALSE, FALSE, "check_mode"))
       ELSE IF params.state = "present"
       THEN exit(create_dataset(st, params.ds_path,
                                DatasetModuleProps(params.quota), env))
       ELSE exit(destroy_dataset(st, params.ds_path, TRUE, env))

\* The environment as the handler that starts after k boundary calls of the
\* run sees it.
ShiftEnv(env, k) ==
    [env EXCEPT !.fault = IF @.at > k THEN [@ EXCEPT !.at = @ - k]
                          ELSE NoFault]

\* ds_path.split("/")[-1]
LastComponent(ds_path) ==
    LET parts == Split(PathChars(ds_path), "/") IN Text(parts[Len(parts)])

\* share.py share_is_absent
share_is_absent(st, params, env) ==
    LET exit(resp) ==
            IF resp.exc # "none"
            THEN Run(resp, resp.calls, Exit(TRUE, FALSE, "exception"))
            ELSE IF resp.res.error # ""
            THEN Run(resp, resp.calls, Exit(TRUE, FALSE, "fail_json smb"))
            ELSE Run(resp, resp.calls,
                     Exit(FALSE, resp.res.changed, "exit_json"))
    IN IF params.proto # "smb"
       THEN EarlyRun(st, Exit(FALSE, FALSE, "exit_json"))
       ELSE exit(configure_smb_share(st, [sharesmb |-> StrV("off")],
                                     params.ds_path, env))

\* share.py share_is_present, from the SMB branch on: acl is the outcome of
\* set_permissions and changed is result["changed"] after it.  Of the
\* exceptions raised inside the try block the two classes it catches end
\* in fail_json, which carries result["changed"] as it stands; anything
\* else escapes.
share_smb(params, acl, changed, env) ==
    LET caught(exc) ==
            IF exc = "InvalidAddressSpecification"
            THEN "fail_json InvalidAddressSpecification"
            ELSE IF IsValueError(exc) THEN "fail_json ValueError"
            ELSE "exception"
        ended(exc) ==
            Exit(TRUE, caught(exc) # "exception" /\ changed, caught(exc))
        configured(resp) ==
            IF resp.exc # "none"
            THEN Run(resp, acl.calls \o resp.calls, ended(resp.exc))
            ELSE IF resp.res.error # ""
            THEN Run(resp, acl.calls \o resp.calls,
                     Exit(TRUE, changed, "fail_json smb"))
            ELSE Run(resp, acl.calls \o resp.calls,
                     Exit(FALSE, changed \/ resp.res.changed, "exit_json"))
        try(valid, pairs) ==
            IF valid.exc # "none"
            THEN Run([acl EXCEPT !.exc = valid.exc], acl.calls,
                     ended(valid.exc))
            ELSE IF pairs.exc # "none"
            THEN Run([acl EXCEPT !.exc = pairs.exc], acl.calls,
                     ended(pairs.exc))
            ELSE configured(
                     configure_smb_share(acl.store, pairs.props,
                                         params.ds_path,
                                         ShiftEnv(env, Len(acl.calls))))
        with(share) ==
            try(validate_access_lists(share), property_pairs(share))
    IN with(SMBShare(IF params.share_name = ""
                     THEN LastComponent(params.ds_path)
                     ELSE params.share_name,
                     params.abe, params.csc, params.encrypt,
                     params.ro_access_list, params.rw_access_list,
                     params.no_access_list, params.ub))

\* share.py share_is_present
share_is_present(st, params, env) ==
    LET after_acl(resp) ==
            IF resp.exc # "none"
            THEN Run(resp, resp.calls, Exit(TRUE, FALSE, "exception"))
            ELSE IF resp.res.error # ""
            THEN Run(resp, resp.calls, Exit(TRUE, FALSE, "fail_json acl"))
            ELSE IF params.proto = "smb"
            THEN share_smb(params, resp, resp.res.changed, env)
            ELSE Run(resp, resp.calls,
                     Exit(FALSE, resp.res.changed, "exit_json"))
    IN after_acl(set_permissions(st, params.ds_path, params.filesystem_acls,
                                 params.owner_sid, params.owner_group_sid,
                                 env))

\* share.py run_module() with the parameters params: AnsibleModule checks
\* the choices of argument_spec before anything else runs.
run_module(st, params, env) ==
    IF \/ params.proto \notin {"nfs", "smb"}
       \/ params.csc \notin {"auto", "disabled", "manual", "vdo"}
       \/ params.encrypt \notin {"disabled", "enabled", "required"}
       \/ params.state \notin {"absent", "present"}
    THEN EarlyRun(st, Exit(TRUE, FALSE, "argument_spec"))
    ELSE IF params.check_mode
    THEN EarlyRun(st, Exit(FALSE, FALSE, "check_mode"))
    ELSE IF params.state = "present" THEN share_is_present(st, params, env)
    ELSE share_is_absent(st, params, env)

---------------------------------------------------------------------------
(* The inputs the operations are exercised with.                           *)

\* Property overlays handed to create_dataset / set_dataset_properties: a
\* size, the size "0" (unlimited), the Python None, an int, and a name
\* outside KNOWN_PROPS.
OverlayValues ==
    [quota |-> {StrV("1G"), StrV("0"), NoneV}, copies |-> {IntV("2")},
     bogus |-> {StrV("x")}]

OverlayNames == {"quota", "copies", "bogus"}

Overlays ==
    UNION {{d \in [ks -> UNION {OverlayValues[k] : k \in ks}] :
              \A k \in ks : d[k] \in OverlayValues[k]} :
           ks \in {X \in SUBSET OverlayNames : Cardinality(X) <= MaxOverlay}}

\* Overlays are tried on the top dataset; the others are created plain.
CreateInputs(paths) ==
    {pP \in paths \X Overlays : pP[1] = A \/ pP[2] = EmptyDict}

\* Permissions a share task asks for: the ones a new dataset has, and an
\* ACL with one entry.
PermInputs ==
    {DefaultPerms, Perms(<<"everyone@:full_set:fd:allow">>,
                         "S-1-5-32-766", "S-1-5-32-767")}

\* Access-list tokens: a host, and a network with host bits set.
HostToken == <<"@", "1", "0", ".", "1", ".", "2", ".", "3">>
BadNetToken == <<"1", "0", ".", "1", ".", "2", ".", "3", "/", "2", "4">>

\* [""]: what AnsibleModule makes of an access list left at its default.
Unset == << <<>> >>

\* The (read-only, read/write) access lists of a share task: both unset, a
\* host allowed to write, the same host in both, an invalid network.
AccessLists ==
    {<<Unset, Unset>>, <<Unset, <<HostToken>>>>,
     <<<<HostToken>>, <<HostToken>>>>, <<<<BadNetToken>>, Unset>>}

\* share.py parameters: the defaults of argument_spec.
ShareDefaults ==
    [ds_path |-> A, state |-> "present", proto |-> "smb",
     check_mode |-> FALSE, filesystem_acls |-> <<>>,
     owner_sid |-> "S-1-5-32-766", owner_group_sid |-> "S-1-5-32-767",
     share_name |-> "", abe |-> "False", csc |-> "disabled",
     encrypt |-> "required", ub |-> "True",
     ro_access_list |-> Unset, rw_access_list |-> Unset,
     no_access_list |-> Unset]

ShareParams ==
    {[ShareDefaults EXCEPT !.filesystem_acls = perms.acl,
                           !.ro_access_list = l[1], !.rw_access_list = l[2]] :
        perms \in PermInputs, l \in AccessLists}
    \cup {[ShareDefaults EXCEPT !.proto = "nfs"]}
    \cup {[ShareDefaults EXCEPT !.state = "absent", !.proto = proto] :
            proto \in {"smb", "nfs"}}
    \cup {[ShareDefaults EXCEPT !.check_mode = TRUE],
          [ShareDefaults EXCEPT !.csc = "none"]}

\* dataset.py parameters.
DatasetParams ==
    {[ds_path |-> A, state |-> "present", recursive |-> FALSE,
      quota |-> q, check_mode |-> FALSE] : q \in {NoneV, StrV("1G")}}
    \cup {[ds_path |-> p, state |-> "absent", recursive |-> r,
           quota |-> NoneV, check_mode |-> FALSE] :
            p \in {A, AB}, r \in BOOLEAN}
    \cup {[ds_path |-> A, state |-> "absent", recursive |-> FALSE,
           quota |-> NoneV, check_mode |-> TRUE]}

\* The share properties a Dataset is constructed with for
\* configure_smb_share.
ShareDicts ==
    {[sharesmb |-> StrV("off")],
     [k \in ShareProps |->
        IF k = "sharesmb"
        THEN StrV("name=a,abe=false,csc=disabled,encrypt=required,ro=,rw=,none=")
        ELSE StrV("on")],
     EmptyDict}

---------------------------------------------------------------------------
(* The state machine: the appliance's datasets and the last operation run  *)
(* against them, with what it was given and what it reported.              *)

Op(op, path, args, env, out, exit) ==
    [op |-> op, path |-> path, args |-> args,
     faulted |-> env.fault.at \in 1..Len(out.calls),
     res |-> out.res, exc |-> out.exc, calls |-> out.calls, exit |-> exit]

\* The appliance holds some of the datasets in paths, each as created with
\* the defaults, and nothing has run yet.
InitOn(paths) ==
    /\ store \in {st \in [Paths -> {AbsentDataset, FreshDataset(DefaultWire)}] :
                    WellFormed(st) /\ Existing(st) \subseteq paths}
    /\ last = Op("none", "", [none |-> TRUE], Env(NoFault, {}, <<>>),
                 Returned(store, NoResult, <<>>), NoExit)

\* One operation has run: the appliance is as it left it, and last records
\* the operation.
Ran(op, path, args, env, out, exit) ==
    /\ store' = out.store
    /\ last' = Op(op, path, args, env, out, exit)

\* A run of a module has ended.
RanModule(op, params, env, out) ==
    Ran(op, params.ds_path, params, env, out, out.exit)

CreateDataset(ds_path, props, env) ==
    Ran("create_dataset", ds_path, [props |-> props], env,
        create_dataset(store, ds_path, props, env), NoExit)

SetDatasetProperties(ds_path, props, env) ==
    Ran("set_dataset_properties", ds_path, [props |-> props], env,
        set_dataset_properties(store, ds_path, props, env), NoExit)

DestroyDataset(ds_path, recursive, env) ==
    Ran("destroy_dataset", ds_path, [recursive |-> recursive], env,
        destroy_dataset(store, ds_path, recursive, env), NoExit)

SetPermissions(ds_path, perms, env) ==
    Ran("set_permissions", ds_path, [perms |-> perms], env,
        set_permissions(store, ds_path, perms.acl, perms.owner_sid,
                        perms.owner_group_sid, env), NoExit)

ConfigureSmbShare(ds_path, props, env) ==
    Ran("configure_smb_share", ds_path, [props |-> props], env,
        configure_smb_share(store, props, ds_path, env), NoExit)

DatasetModule(params, env) ==
    RanModule("dataset", params, env, dataset_main(store, params, env))

ShareModule(params, env) ==
    RanModule("share", params, env, run_module(store, params, env))

\* The Dataset class: its five operations, on a dataset and its child.
Family == {A, AB}

Init == InitOn(Family)

Next ==
    \/ \E pP \in CreateInputs(Family), env \in CreateEnvs :
          CreateDataset(pP[1], pP[2], env)
    \/ \E props \in Overlays, env \in FaultEnvs(2) :
          SetDatasetProperties(A, props, env)
    \/ \E ds_path \in Family, recursive \in BOOLEAN :
          \E env \in Envs(store, ds_path) :
             DestroyDataset(ds_path, recursive, env)
    \/ \E perms \in PermInputs, env \in FaultEnvs(2) :
          SetPermissions(A, perms, env)
    \/ \E props \in ShareDicts, env \in FaultEnvs(4) :
          ConfigureSmbShare(A, props, env)

Spec == Init /\ [][Next]_vars

\* Dataset provisioning alone (create, set properties, destroy), on the
\* whole tree of datasets.
InitProvision == InitOn(Paths)

NextProvision ==
    \/ \E pP \in CreateInputs(Paths), env \in CreateEnvs :
          CreateDataset(pP[1], pP[2], env)
    \/ \E props \in Overlays, env \in FaultEnvs(2) :
          SetDatasetProperties(A, props, env)
    \/ \E ds_path \in Paths, recursive \in BOOLEAN :
          \E env \in Envs(store, ds_path) :
             DestroyDataset(ds_path, recursive, env)

SpecProvision == InitProvision /\ [][NextProvision]_vars

\* Tasks of the dataset module.
NextDatasetModule ==
    \E params \in DatasetParams :
       \E env \in Envs(store, params.ds_path) :
          DatasetModule(params, env)

SpecDatasetModule == InitProvision /\ [][NextDatasetModule]_vars

\* Tasks of the share module, on an appliance where the dataset to share
\* exists or not.
InitShare == InitOn({A})

NextShareModule ==
    \E params \in ShareParams, env \in FaultEnvs(6) :
       ShareModule(params, env)

SpecShareModule == InitShare /\ [][NextShareModule]_vars

\* netacl.py on its own: lists constructed from tokens, rendered and read
\* back, and pairs of lists checked for conflicts.

\* The tokens the calls are made on, by what each one is.
Token ==
    [\* "10.1.2.3": a host.
     BareHost |->
         <<"1", "0", ".", "1", ".", "2", ".", "3">>,
     \* "10.9.9.9": another host.
     OtherHost |->
         <<"1", "0", ".", "9", ".", "9", ".", "9">>,
     \* "10.1.0.0/16": a network, holding the first host.
     NetToken |->
         <<"1", "0", ".", "1", ".", "0", ".", "0", "/", "1", "6">>,
     \* "10.0.0.0/8": a network holding it.
     WideNet |->
         <<"1", "0", ".", "0", ".", "0", ".", "0", "/", "8">>,
     \* "10.9.0.0/16": a network apart from it, holding the other host.
     OtherNet |->
         <<"1", "0", ".", "9", ".", "0", ".", "0", "/", "1", "6">>,
     \* "10.1.2.0/16": a network literal with host bits set.
     LooseNet |->
         <<"1", "0", ".", "1", ".", "2", ".", "0", "/", "1", "6">>,
     \* "127.0.0.1": a loopback address.
     Loopback |->
         <<"1", "2", "7", ".", "0", ".", "0", ".", "1">>,
     \* "ab": a name.
     NameToken |->
         <<"a", "b">>,
     \* "1a": a name that starts with a digit.
     DigitName |->
         <<"1", "a">>,
     \* "10.1.2.3x": a name that starts like an address.
     QuadName |->
         <<"1", "0", ".", "1", ".", "2", ".", "3", "x">>]

\* A call about to be made: the constructor in one of its two forms on a
\* sequence of at most MaxTokens tokens (the empty token, addresses and
\* networks with and without the "@" prefix, and names), raise_on_conflict
\* on two lists given as strings of at most MaxConflictTokens accepted
\* tokens, or validate_access_lists() or str() on a share descriptor.  A
\* descriptor holds each access list as share.py gives it, a list of
\* tokens, and is exercised with every combination of Lists under the
\* default options and with every combination of options on one list.
NetAclCalls ==
    LET SeqsUpTo(S, n) == UNION {[1..k -> S] : k \in 0..n}
        Lists ==
            {<<>>, <<Token.BareHost>>, <<Token.NetToken>>, <<Token.NameToken>>}
        NFS(ro, rw, no, root, hideds, sec_label, ub, sec_mode) ==
            [cls |-> "NFSShare", read_only |-> ro, read_write |-> rw,
             none |-> no, root |-> root, hideds |-> hideds,
             sec_label |-> sec_label, ub |-> ub, sec_mode |-> sec_mode]
        SMB(ro, rw, no, abe, csc, encrypt, ub) ==
            [cls |-> "SMBShare"]
                @@ SMBShare("a", abe, csc, encrypt, ro, rw, no, ub)
        Shares ==
            {NFS(ro, rw, no, root, "False", "False", "True", "sys") :
                ro \in Lists, rw \in Lists, no \in Lists, root \in Lists}
            \cup {NFS(<<Token.BareHost>>, <<>>, <<>>, <<>>, hideds, sec_label,
                      ub, sec_mode) :
                     hideds \in {"True", "False", "yes"},
                     sec_label \in {"True", "False"},
                     ub \in {"True", "False", "on"},
                     sec_mode \in {"sys", "krb5", "", "tls"}}
            \cup {SMB(ro, rw, no, "False", "disabled", "required", "True") :
                     ro \in Lists, rw \in Lists, no \in Lists}
            \cup {SMB(<<Token.BareHost>>, <<>>, <<>>, abe, csc, encrypt, ub) :
                     abe \in {"True", "False", "yes"},
                     csc \in {"disabled", "auto", "none"},
                     encrypt \in {"required", "off"},
                     ub \in {"True", "False", "on"}}
        AclTokens ==
            {<<>>, Token.NameToken, Token.DigitName, Token.QuadName}
            \cup UNION {{t, <<"@">> \o t} :
                          t \in {Token.BareHost, Token.OtherHost,
                                 Token.NetToken, Token.LooseNet,
                                 Token.Loopback}}
        ConflictTokens ==
            {Token.BareHost, Token.OtherHost, Token.NetToken, Token.WideNet,
             Token.OtherNet, Token.NameToken}
    IN {[op |-> "call", fn |-> "IPNetHostList", form |-> form, tokens |-> ts] :
           form \in {"str", "list"}, ts \in SeqsUpTo(AclTokens, MaxTokens)}
       \cup {[op |-> "call", fn |-> "raise_on_conflict", ro |-> ro, rw |-> rw] :
               ro \in SeqsUpTo(ConflictTokens, MaxConflictTokens),
               rw \in SeqsUpTo(ConflictTokens, MaxConflictTokens)}
       \cup {[op |-> "call", fn |-> fn, share |-> share] :
               fn \in {"validate_access_lists", "str"}, share \in Shares}

InitNetAcl ==
    /\ store = [p \in Paths |-> AbsentDataset]
    /\ last \in NetAclCalls

\* IPNetHostList(addrs), then str() of the list and IPNetHostList() of that
\* str where the list was constructed.
NewList ==
    LET made(l) ==
            [op |-> "IPNetHostList", form |-> last.form,
             tokens |-> last.tokens, list |-> l,
             text |-> IF l.exc = "none" THEN str_chars(l) ELSE <<>>,
             reparsed |-> IF l.exc = "none"
                          THEN IPNetHostList_from_str(str_chars(l))
                          ELSE l]
    IN /\ last.op = "call"
       /\ last.fn = "IPNetHostList"
       /\ last' = made(IF last.form = "str"
                       THEN IPNetHostList_from_str(JoinChars(last.tokens, ":"))
                       ELSE IPNetHostList_from_list(last.tokens))
       /\ UNCHANGED store

\* raise_on_conflict(ro_list, rw_list) on two constructed lists.
RaiseOnConflict ==
    LET checked(ro, rw) ==
            [op |-> "raise_on_conflict", ro |-> ro, rw |-> rw,
             msg |-> raise_on_conflict(ro, rw)]
    IN /\ last.op = "call"
       /\ last.fn = "raise_on_conflict"
       /\ last' = checked(IPNetHostList_from_str(JoinChars(last.ro, ":")),
                          IPNetHostList_from_str(JoinChars(last.rw, ":")))
       /\ UNCHANGED store

\* share.validate_access_lists() on an NFSShare or an SMBShare: the two
\* classes hold the same method.
ValidateAccessLists ==
    LET validated(out) ==
            [op |-> "validate_access_lists", share |-> last.share,
             out |-> out]
    IN /\ last.op = "call"
       /\ last.fn = "validate_access_lists"
       /\ last' = validated(validate_access_lists(last.share))
       /\ UNCHANGED store

\* str(share) on an NFSShare or an SMBShare, and share.property_pairs of
\* the SMBShare.
ShareStr ==
    LET rendered(out, pairs) ==
            [op |-> "str", share |-> last.share, out |-> out,
             pairs |-> pairs]
    IN /\ last.op = "call"
       /\ last.fn = "str"
       /\ last' = IF last.share.cls = "NFSShare"
                  THEN rendered(nfs_str(last.share),
                                [exc |-> "none", msg |-> "",
                                 props |-> EmptyDict])
                  ELSE rendered(smb_str(last.share),
                                property_pairs(last.share))
       /\ UNCHANGED store

NextNetAcl == NewList \/ RaiseOnConflict \/ ValidateAccessLists \/ ShareStr

SpecNetAcl == InitNetAcl /\ [][NextNetAcl]_vars

---------------------------------------------------------------------------
(* Dataset objects.  Python dicts are shared by reference, so the dicts    *)
(* live in a heap: cell "class" is the class attribute                     *)
(* Dataset.DEFAULT_DATASET_PROPS, cell "own" is the dict the one Dataset   *)
(* object made for itself, and ref says which of them self.props is        *)
(* ("none" for None).  deepcopy fills the cell "own".                      *)

\* Dataset.diff(other) on a model holding the dict props: the pairs of
\* other that are not pairs of the model, or the KeyError for a name of
\* other that the model does not hold.
diff(props, other) ==
    IF \E k \in DOMAIN other : k \notin DOMAIN props
    THEN [exc |-> "KeyError", value |-> EmptyDict]
    ELSE [exc |-> "none",
          value |-> ItemsMinus(other, Restrict(props, DOMAIN other))]

\* The module is imported and Dataset() constructed.
InitObjects ==
    /\ store = [p \in Paths |-> AbsentDataset]
    /\ last = [op |-> "import",
               heap |-> [class |-> DEFAULT_DATASET_PROPS, own |-> EmptyDict],
               ref |-> "none", arg |-> EmptyDict,
               out |-> [exc |-> "none", value |-> EmptyDict]]

\* Dataset(props) and Dataset(): __init__ keeps a deepcopy of props.
NewDataset ==
    \E given \in BOOLEAN, props \in Overlays :
       /\ given \/ props = EmptyDict
       /\ last' = [op |-> "Dataset",
                   heap |-> [last.heap EXCEPT
                                !.own = IF given THEN props ELSE EmptyDict],
                   ref |-> IF given THEN "own" ELSE "none",
                   arg |-> props,
                   out |-> [exc |-> "none", value |-> EmptyDict]]
       /\ UNCHANGED store

\* A seeding that takes the class attribute itself for self.props.
SeedWithDefaultProps_shared ==
    /\ last.op # "import"
    /\ last' = [op |-> "_seed_with_default_props",
                heap |-> IF last.ref = "none" THEN last.heap
                         ELSE [last.heap EXCEPT
                                  ![last.ref] =
                                     [k \in DOMAIN @ \cup DOMAIN last.heap.class
                                        |-> IF k \in DOMAIN last.heap.class
                                            THEN last.heap.class[k]
                                            ELSE @[k]]],
                ref |-> IF last.ref = "none" THEN "class" ELSE last.ref,
                arg |-> EmptyDict,
                out |-> [exc |-> "none", value |-> EmptyDict]]
    /\ UNCHANGED store

\* Dataset._seed_with_default_props: a deepcopy of the class attribute for
\* a model without props, else self.props.update() with it.
SeedWithDefaultProps ==
    /\ last.op # "import"
    /\ last' = [op |-> "_seed_with_default_props",
                heap |-> IF last.ref = "none"
                         THEN [last.heap EXCEPT !.own = last.heap.class]
                         ELSE [last.heap EXCEPT
                                  ![last.ref] =
                                     [k \in DOMAIN @ \cup DOMAIN last.heap.class
                                        |-> IF k \in DOMAIN last.heap.class
                                            THEN last.heap.class[k]
                                            ELSE @[k]]],
                ref |-> IF last.ref = "none" THEN "own" ELSE last.ref,
                arg |-> EmptyDict,
                out |-> [exc |-> "none", value |-> EmptyDict]]
    /\ UNCHANGED store

\* Dataset.merge(**changes), the names taken in the order the caller gave
\* them: the names in front of the first one that raises are written.
Merge ==
    \E changes \in Overlays :
       \E order \in Orderings(DOMAIN changes) :
          LET raises(k) ==
                  IF k \notin KNOWN_PROPS THEN "KeyError"
                  ELSE IF last.ref = "none" THEN "TypeError"
                  ELSE IF k \notin DOMAIN last.heap[last.ref] THEN "KeyError"
                  ELSE "none"
              stops == {i \in 1..Len(order) : raises(order[i]) # "none"}
              written ==
                  {order[i] : i \in {j \in 1..Len(order) :
                                       \A s \in stops : j < s}}
          IN /\ last.op # "import"
             /\ last' = [op |-> "merge",
                         heap |-> IF last.ref = "none" THEN last.heap
                                  ELSE [last.heap EXCEPT
                                           ![last.ref] =
                                              merge(@, Restrict(changes,
                                                                written))],
                         ref |-> last.ref,
                         arg |-> changes,
                         out |-> [exc |-> IF stops = {} THEN "none"
                                          ELSE raises(order[
                                                   CHOOSE s \in stops :
                                                      \A t \in stops : s <= t]),
                                  value |-> EmptyDict]]
             /\ UNCHANGED store

\* Dataset.diff(other): other is a dict of desired values or the
\* properties observed on a dataset.
Diff ==
    \E other \in Overlays \cup {parse_dataset_details(DefaultWire)} :
       /\ last.op # "import"
       /\ last' = [op |-> "diff", heap |-> last.heap, ref |-> last.ref,
                   arg |-> other,
                   out |-> IF last.ref # "none"
                           THEN diff(last.heap[last.ref], other)
                           ELSE [exc |-> IF other = EmptyDict THEN "none"
                                         ELSE "TypeError",
                                 value |-> EmptyDict]]
       /\ UNCHANGED store

\* Dataset._dataset_props, read for the request create_dataset sends.
DatasetProps ==
    /\ last.op # "import"
    /\ last' = [op |-> "_dataset_props", heap |-> last.heap,
                ref |-> last.ref, arg |-> EmptyDict,
                out |-> IF last.ref = "none"
                        THEN [exc |-> "AttributeError", value |-> EmptyDict]
                        ELSE [exc |-> "none",
                              value |-> dataset_props(last.heap[last.ref])]]
    /\ UNCHANGED store

NextObjects ==
    NewDataset \/ SeedWithDefaultProps \/ Merge \/ Diff \/ DatasetProps

SpecObjects == InitObjects /\ [][NextObjects]_vars

---------------------------------------------------------------------------
(* Properties.                                                             *)

HandlerOps ==
    {"create_dataset", "set_dataset_properties", "destroy_dataset",
     "set_permissions", "configure_smb_share"}

\* The boundary calls of the last operation with the given name.
CallsNamed(name) == SelectSeq(last.calls, LAMBDA c : c.call = name)

\* C1: create_dataset on a path that does not exist, with known property
\* names only, against a store that accepts the create (the parent exists,
\* no fault), issues exactly one call, createDataset, and returns
\* succeeded=True, changed=True, outcome "created"; the dataset exists
\* afterwards.
C1_CreateOnAbsentPath ==
    [][(/\ last'.op = "create_dataset"
        /\ ~store[last'.path].exists
        /\ UnknownKeys(last'.args.props) = {}
        /\ HasParentIn(last'.path, Existing(store))
        /\ ~last'.faulted)
       => (/\ last'.exc = "none"
           /\ Len(last'.calls) = 1
           /\ last'.calls[1].call = "createDataset"
           /\ last'.calls[1].path = last'.path
           /\ last'.res.succeeded
           /\ last'.res.changed
           /\ last'.res.details.outcome = "created"
           /\ store'[last'.path].exists)]_vars

C1_Witness ==
    /\ last.op = "create_dataset"
    /\ last.args.props # EmptyDict
    /\ last.exc = "none"
    /\ last.res.details.outcome = "created"
    /\ Len(last.calls) = 1
    /\ store[last.path].exists

\* C2: after create_dataset(path, P) has succeeded, a second
\* create_dataset(path, P) with the same P, with nothing in between and no
\* fault, returns succeeded=True, changed=False, outcome "unchanged", and
\* leaves every property of the dataset as it was.
C2_CreateIsIdempotent ==
    [][(/\ last.op = "create_dataset"
        /\ last.exc = "none"
        /\ last.res.succeeded
        /\ last'.op = "create_dataset"
        /\ last'.path = last.path
        /\ last'.args = last.args
        /\ ~last'.faulted)
       => (/\ last'.exc = "none"
           /\ last'.res.succeeded
           /\ ~last'.res.changed
           /\ last'.res.details.outcome = "unchanged"
           /\ store' = store)]_vars

\* The same with at least one property in P: this much holds.
C2_IdempotentWithProps ==
    [][(/\ last.op = "create_dataset"
        /\ last.exc = "none"
        /\ last.res.succeeded
        /\ last.args.props # EmptyDict
        /\ last'.op = "create_dataset"
        /\ last'.path = last.path
        /\ last'.args = last.args
        /\ ~last'.faulted)
       => (/\ last'.exc = "none"
           /\ last'.res.succeeded
           /\ ~last'.res.changed
           /\ last'.res.details.outcome = "unchanged"
           /\ store' = store)]_vars

\* C3: whatever one of the five Dataset operations returns, succeeded=False
\* comes with changed=False.
C3_FailureIsNotChanged ==
    (last.op \in HandlerOps /\ last.exc = "none" /\ ~last.res.succeeded)
        => ~last.res.changed

C3_Witness ==
    /\ last.op = "set_permissions"
    /\ last.exc = "none"
    /\ ~last.res.succeeded
    /\ Len(last.calls) = 2
    /\ last.calls[2].call = "applyPerms"

\* C4: a share task with state=present that ends in failure does not report
\* changed=True.
C4_FailedShareRunNotChanged ==
    (last.op = "share" /\ last.args.state = "present" /\ last.exit.failed)
        => ~last.exit.changed

\* The destroy calls issued for descendants of the dataset being destroyed.
DescendantCalls(l) ==
    SelectSeq(l.calls,
              LAMBDA c : c.call = "destroyDataset" /\ c.path # l.path)

\* The destroy calls that the top-level destroy_dataset of the last
\* operation issued itself: one per child in its loop, then the parent.
LoopCalls(l) ==
    SelectSeq(l.calls, LAMBDA c : c.call = "destroyDataset" /\ c.depth = 1)

\* C5: a recursive destroy of a dataset whose descendants the store
\* reports issues the destroy calls for the descendants one after the
\* other in strictly descending order of their paths, and the destroy call
\* that removes the dataset itself only after a call for every descendant.
C5_ReverseLexicographicDestroy ==
    [][(/\ last'.op = "destroy_dataset"
        /\ last'.args.recursive
        /\ Len(last'.calls) >= 2
        /\ last'.calls[2].ret = "Descendants")
       => LET loop == LoopCalls(last')
              kids == SelectSeq(loop, LAMBDA c : c.path # last'.path)
              reported == DescendantsOf(store, last'.path)
          IN /\ \A i \in 1..Len(kids) : kids[i].path \in reported
             /\ \A i, j \in 1..Len(kids) :
                   i < j => StrLess(kids[j].path, kids[i].path)
             /\ \A i \in 1..Len(loop) :
                   loop[i].path = last'.path
                   => /\ i = Len(loop)
                      /\ {kids[j].path : j \in 1..Len(kids)} = reported
                      /\ last'.calls[Len(last'.calls)] = loop[i]]_vars

C5_Witness ==
    /\ last.op = "destroy_dataset"
    /\ last.args.recursive
    /\ last.exc = "none"
    /\ Len(last.calls) = 6
    /\ last.calls[2].ret = "Descendants"
    /\ \A i \in 3..6 : last.calls[i].ret = "ok"
    /\ Existing(store) = {}

\* C6: a non-recursive destroy of an existing dataset whose descendants the
\* store reports returns succeeded=False, changed=False, with
\* details.descendants listing every descendant once, and issues no destroy
\* call for a descendant; nothing is removed.
C6_NonRecursiveDestroyRefuses ==
    [][(/\ last'.op = "destroy_dataset"
        /\ ~last'.args.recursive
        /\ store[last'.path].exists
        /\ DescendantsOf(store, last'.path) # {}
        /\ ~last'.faulted)
       => LET d == last'.res.details.descendants
          IN /\ last'.exc = "none"
             /\ ~last'.res.succeeded
             /\ ~last'.res.changed
             /\ Range(d) = DescendantsOf(store, last'.path)
             /\ Len(d) = Cardinality(DescendantsOf(store, last'.path))
             /\ DescendantCalls(last') = <<>>
             /\ store' = store]_vars

C6_Witness ==
    /\ last.op = "destroy_dataset"
    /\ ~last.args.recursive
    /\ last.exc = "none"
    /\ ~last.res.succeeded
    /\ Len(last.res.details.descendants) = 3
    /\ Range(last.res.details.descendants) = DescendantsOf(store, last.path)

\* C7: a dataset task with state=absent and recursive=False issues no
\* destroy call for a descendant of ds_path, and fails when there are
\* descendants, which all still exist afterwards.
C7_AbsentHonoursRecursive ==
    [][(/\ last'.op = "dataset"
        /\ ~last'.args.check_mode
        /\ last'.args.state = "absent"
        /\ ~last'.args.recursive)
       => /\ DescendantCalls(last') = <<>>
          /\ (store[last'.path].exists
              /\ DescendantsOf(store, last'.path) # {} /\ ~last'.faulted)
                => /\ last'.exit.failed
                   /\ DescendantsOf(store', last'.path)
                        = DescendantsOf(store, last'.path)]_vars

\* C8: a destroy of a path that the existence check reports absent returns
\* succeeded=True, changed=False and issues no destroy call; and a destroy
\* that follows a successful destroy of the same path reports
\* changed=False.
C8_DestroyAbsentIsNoChange ==
    [][/\ (last'.op = "destroy_dataset" /\ last'.calls[1].ret = "False")
          => /\ last'.exc = "none"
             /\ last'.res.succeeded
             /\ ~last'.res.changed
             /\ Len(last'.calls) = 1
             /\ store' = store
       /\ (/\ last.op = "destroy_dataset"
           /\ last.exc = "none"
           /\ last.res.succeeded
           /\ last'.op = "destroy_dataset"
           /\ last'.path = last.path
           /\ last'.args = last.args
           /\ ~last'.faulted)
          => (last'.exc = "none" /\ ~last'.res.changed)]_vars

\* The first half of C8 alone: this much holds.
C8_AbsentPathOnly ==
    (last.op = "destroy_dataset" /\ last.calls[1].ret = "False")
        => /\ last.exc = "none"
           /\ last.res.succeeded
           /\ ~last.res.changed
           /\ Len(last.calls) = 1

\* C9: destroy_dataset reports changed=True only when the dataset is gone:
\* if the dataset still exists after the call, the outcome is not
\* changed=True.
C9_ChangedMeansRemoved ==
    (last.op = "destroy_dataset" /\ last.exc = "none" /\ last.res.changed)
        => ~store[last.path].exists

\* C10: a share task (state=present, proto=smb) whose access lists or
\* options fail validation fails without a state-changing boundary call:
\* no applyPerms and no setProperties call has been made.
C10_ValidationBeforeBoundaryCalls ==
    (/\ last.op = "share"
     /\ last.args.state = "present"
     /\ last.args.proto = "smb"
     /\ last.exit.at \in {"argument_spec",
                          "fail_json InvalidAddressSpecification",
                          "fail_json ValueError"})
        => /\ last.exit.failed
           /\ CallsNamed("applyPerms") = <<>>
           /\ CallsNamed("setProperties") = <<>>

\* C11: create_dataset called with a property name that is not in
\* KNOWN_PROPS returns succeeded=False, changed=False and an error naming
\* such a property, makes no boundary call at all, and leaves the
\* appliance as it was.
C11_UnknownPropertyRejected ==
    [][(/\ last'.op = "create_dataset"
        /\ \E k \in DOMAIN last'.args.props : k \notin KNOWN_PROPS)
       => (/\ last'.exc = "none"
           /\ ~last'.res.succeeded
           /\ ~last'.res.changed
           /\ \E k \in (DOMAIN last'.args.props) \ KNOWN_PROPS :
                 last'.res.error =
                    "Cannot update '" \o k
                        \o "'; because it is not a known property name"
           /\ last'.calls = <<>>
           /\ store' = store)]_vars

C11_Witness ==
    /\ last.op = "create_dataset"
    /\ "bogus" \in DOMAIN last.args.props
    /\ ~store[last.path].exists
    /\ ~last.res.succeeded
    /\ last.calls = <<>>

\* What a boundary call returns when the client raised DatasetQueryError
\* for it (a failed command, or the connection error of auth_if_required).
QueryErrors == {"Error", "DoesNotExist", "DoesNotHaveEnoughSpace"}

\* C12: when a boundary call inside create_dataset, set_dataset_properties,
\* destroy_dataset or configure_smb_share raised a DatasetQueryError, the
\* handler returns (it does not raise) an outcome with succeeded=False and
\* an error string.
C12_RemoteErrorsAreReturned ==
    (/\ last.op \in {"create_dataset", "set_dataset_properties",
                     "destroy_dataset", "configure_smb_share"}
     /\ \E i \in 1..Len(last.calls) : last.calls[i].ret \in QueryErrors)
        => /\ last.exc = "none"
           /\ ~last.res.succeeded
           /\ last.res.error \notin {None, ""}

\* C13: when createDataset fails with Exists, every setProperties request
\* create_dataset sends carries at least one property, and only desired
\* properties whose value differs from the value observed on the existing
\* dataset.
C13_OnlyDeltasAreSent ==
    [][(/\ last'.op = "create_dataset"
        /\ Len(last'.calls) >= 1
        /\ last'.calls[1].ret = "Exists")
       => \A i \in 1..Len(last'.calls) :
             (/\ last'.calls[i].call = "setProperties"
              /\ last'.calls[i].ret # "ValueError")
                => /\ DOMAIN last'.calls[i].props # {}
                   /\ \A k \in DOMAIN last'.calls[i].props :
                         /\ k \in DOMAIN last'.args.props
                         /\ last'.args.props[k] #
                               parse_dataset_details(store[last'.path].props)[k]
      ]_vars

\* C14: create_dataset given quota "0" (the default for quota being None)
\* sends the token "none" for quota in every request that carries
\* properties.
C14_ZeroQuotaIsSentAsNone ==
    [][(/\ last'.op = "create_dataset"
        /\ "quota" \in DOMAIN last'.args.props
        /\ last'.args.props["quota"] = StrV("0"))
       => \A i \in 1..Len(last'.calls) :
             "quota" \in DOMAIN last'.calls[i].props
                => last'.calls[i].props["quota"] = "none"]_vars

\* The tokens of the calls that the specification accepts: the empty
\* token, the name, and the two hosts and the network with or without "@".
GoodTokens ==
    {<<>>, Token.NameToken}
    \cup UNION {{t, <<"@">> \o t} :
                  t \in {Token.BareHost, Token.OtherHost, Token.NetToken}}

\* The token is the network literal t, with or without the "@" prefix.
IsLiteral(token, t) == token = t \/ token = <<"@">> \o t

\* The first token of the constructed list's input that is not in
\* GoodTokens is the literal t.
FirstBadIs(t) ==
    \E i \in 1..Len(last.tokens) :
        /\ IsLiteral(last.tokens[i], t)
        /\ \A j \in 1..(i - 1) : last.tokens[j] \in GoodTokens

\* C15: constructing an IPNetHostList, in either form, from input whose
\* network literal 10.1.2.0/16 has host bits set fails with
\* InvalidAddressSpecification "10.1.2.0/16 has host bits set" and yields
\* no list; input of accepted tokens with the literal 10.1.0.0/16
\* constructs a list with that network in nets.
C15_HostBitsRejected ==
    last.op = "IPNetHostList"
        => /\ FirstBadIs(Token.LooseNet)
              => /\ last.list.exc = "InvalidAddressSpecification"
                 /\ last.list.msg = "10.1.2.0/16 has host bits set"
                 /\ last.list.nets = <<>>
           /\ (/\ \A i \in 1..Len(last.tokens) : last.tokens[i] \in GoodTokens
               /\ \E i \in 1..Len(last.tokens) :
                     IsLiteral(last.tokens[i], Token.NetToken))
              => /\ last.list.exc = "none"
                 /\ [octets |-> <<10, 1, 0, 0>>, prefixlen |-> 16]
                       \in Range(last.list.nets)

\* The same for the colon-separated string form alone: this much holds.
C15_HostBitsRejectedInString ==
    (last.op = "IPNetHostList" /\ last.form = "str")
        => /\ FirstBadIs(Token.LooseNet)
              => /\ last.list.exc = "InvalidAddressSpecification"
                 /\ last.list.msg = "10.1.2.0/16 has host bits set"
                 /\ last.list.nets = <<>>
           /\ (/\ \A i \in 1..Len(last.tokens) : last.tokens[i] \in GoodTokens
               /\ \E i \in 1..Len(last.tokens) :
                     IsLiteral(last.tokens[i], Token.NetToken))
              => /\ last.list.exc = "none"
                 /\ [octets |-> <<10, 1, 0, 0>>, prefixlen |-> 16]
                       \in Range(last.list.nets)

\* C16: constructing an IPNetHostList, in either form, from input that
\* holds the loopback address 127.0.0.1, with or without "@" and whatever
\* the other tokens, fails with InvalidAddressSpecification; and no
\* constructed list has an address of 127.0.0.0/8 in hosts.
C16_LoopbackRejected ==
    last.op = "IPNetHostList"
        => /\ (\E i \in 1..Len(last.tokens) :
                  IsLiteral(last.tokens[i], Token.Loopback))
              => last.list.exc = "InvalidAddressSpecification"
           /\ last.list.exc = "none"
              => \A i \in 1..Len(last.list.hosts) :
                    last.list.hosts[i][1] # 127

\* The same for the colon-separated string form alone: this much holds.
C16_LoopbackRejectedInString ==
    (last.op = "IPNetHostList" /\ last.form = "str")
        => /\ (\E i \in 1..Len(last.tokens) :
                  IsLiteral(last.tokens[i], Token.Loopback))
              => last.list.exc = "InvalidAddressSpecification"
           /\ last.list.exc = "none"
              => \A i \in 1..Len(last.list.hosts) :
                    last.list.hosts[i][1] # 127

\* The tokens of the calls that are names: no "/", not a dotted quad, no
\* "@" in front.
NameTokens == {Token.NameToken, Token.DigitName, Token.QuadName}

\* C17: input made of accepted tokens and names, among them a name that
\* starts with a digit and one that starts like a dotted quad, constructs
\* a list in either form, and others holds exactly the names of the input,
\* unchanged and in input order.
C17_NamesAcceptedVerbatim ==
    (/\ last.op = "IPNetHostList"
     /\ \A i \in 1..Len(last.tokens) :
           last.tokens[i] \in GoodTokens \cup NameTokens)
        => /\ last.list.exc = "none"
           /\ last.list.others =
                 SelectSeq(last.tokens, LAMBDA t : t \in NameTokens)

\* The same for names that start with a letter: this much holds.
C17_LetterNamesAccepted ==
    (/\ last.op = "IPNetHostList"
     /\ \A i \in 1..Len(last.tokens) : last.tokens[i] \in GoodTokens)
        => /\ last.list.exc = "none"
           /\ last.list.others =
                 SelectSeq(last.tokens, LAMBDA t : t = Token.NameToken)

\* The entries of a token sequence by class, in input order: network
\* literals (a "/" in them), names, and host addresses (the rest but the
\* empty token).
NetsOf(tokens) ==
    SelectSeq(tokens, LAMBDA t : \E i \in 1..Len(t) : t[i] = "/")

NamesOf(tokens) == SelectSeq(tokens, LAMBDA t : t \in NameTokens)

HostsOf(tokens) ==
    SelectSeq(tokens, LAMBDA t : /\ t # <<>>
                                 /\ t \notin NameTokens
                                 /\ \A i \in 1..Len(t) : t[i] # "/")

\* The tokens, each with exactly one "@" in front.
Prefixed(tokens) ==
    [i \in 1..Len(tokens) |->
        IF tokens[i][1] = "@" THEN tokens[i] ELSE <<"@">> \o tokens[i]]

\* C18: for every constructed list, str(list) is the ":"-join of the
\* networks of the input in input order, then its hosts in input order,
\* each with exactly one "@" in front, then its names in input order as
\* they are; empty tokens contribute nothing.
C18_StrRendersByClass ==
    (last.op = "IPNetHostList" /\ last.list.exc = "none")
        => last.text =
              JoinChars(Prefixed(NetsOf(last.tokens))
                            \o Prefixed(HostsOf(last.tokens))
                            \o NamesOf(last.tokens),
                        ":")

C18_Witness ==
    /\ last.op = "IPNetHostList"
    /\ last.list.exc = "none"
    /\ last.tokens = <<Token.BareHost, Token.NetToken>>
    /\ last.text = <<"@">> \o Token.NetToken \o <<":", "@">> \o Token.BareHost

\* C19: a list L constructed, in either form, from a sequence of accepted
\* tokens reads back from its own rendering: IPNetHostList(str(L)) is
\* constructed, has the hosts, nets and others of L, and renders as str(L).
C19_RoundTrip ==
    (/\ last.op = "IPNetHostList"
     /\ \A i \in 1..Len(last.tokens) : last.tokens[i] \in GoodTokens)
        => /\ last.list.exc = "none"
           /\ last.reparsed.exc = "none"
           /\ last.reparsed.hosts = last.list.hosts
           /\ last.reparsed.nets = last.list.nets
           /\ last.reparsed.others = last.list.others
           /\ str_chars(last.reparsed) = last.text

C19_Witness ==
    /\ last.op = "IPNetHostList"
    /\ last.form = "list"
    /\ last.tokens = <<Token.NameToken, Token.NetToken>>
    /\ last.text = <<"@">> \o Token.NetToken \o <<":">> \o Token.NameToken
    /\ last.reparsed.exc = "none"
    /\ Len(last.reparsed.nets) = 1
    /\ last.reparsed.others = <<Token.NameToken>>

\* C20: raise_on_conflict(A, B) raises exactly when a host is in both lists,
\* a network of A shares an address with a network of B, a host of one list
\* lies in a network of the other, or a name is in both lists; otherwise it
\* returns.
C20_ConflictIffOverlap ==
    LET ro == last.ro
        rw == last.rw
        common(a, b) ==
            \A i \in 1..(IF a.prefixlen < b.prefixlen
                         THEN a.prefixlen ELSE b.prefixlen) :
                Bits(a.octets)[i] = Bits(b.octets)[i]
        inside(h, n) ==
            \A i \in 1..n.prefixlen : Bits(h)[i] = Bits(n.octets)[i]
    IN last.op = "raise_on_conflict"
          => (last.msg # ""
                <=> \/ Range(ro.hosts) \cap Range(rw.hosts) # {}
                    \/ \E a \in Range(ro.nets), b \in Range(rw.nets) :
                          common(a, b)
                    \/ \E h \in Range(ro.hosts), n \in Range(rw.nets) :
                          inside(h, n)
                    \/ \E h \in Range(rw.hosts), n \in Range(ro.nets) :
                          inside(h, n)
                    \/ Range(ro.others) \cap Range(rw.others) # {})

C20_WitnessRaised ==
    /\ last.op = "raise_on_conflict"
    /\ Len(last.ro.nets) = 1
    /\ last.ro.nets[1].prefixlen = 8
    /\ Len(last.rw.nets) = 1
    /\ last.rw.nets[1].prefixlen = 16
    /\ last.msg # ""

\* C21: validate_access_lists() on a share descriptor whose read-only list,
\* read/write list, or both are empty completes without raising.
C21_EmptyListsAreCompatible ==
    (/\ last.op = "validate_access_lists"
     /\ last.share.read_only = <<>> \/ last.share.read_write = <<>>)
        => last.out.exc = "none"

\* C22: on a share descriptor that validate_access_lists() accepts, no host,
\* network or name is in two of the read-only, read/write and none lists,
\* be it by equality, by two networks sharing an address or by a host lying
\* in a network.
C22_NoClientInTwoClasses ==
    LET inside(h, n) ==
            \A i \in 1..n.prefixlen : Bits(h)[i] = Bits(n.octets)[i]
        common(a, b) ==
            \A i \in 1..(IF a.prefixlen < b.prefixlen
                         THEN a.prefixlen ELSE b.prefixlen) :
                Bits(a.octets)[i] = Bits(b.octets)[i]
        clash(a, b) ==
            \/ Range(a.hosts) \cap Range(b.hosts) # {}
            \/ Range(a.others) \cap Range(b.others) # {}
            \/ \E m \in Range(a.nets), n \in Range(b.nets) : common(m, n)
            \/ \E h \in Range(a.hosts), n \in Range(b.nets) : inside(h, n)
            \/ \E h \in Range(b.hosts), n \in Range(a.nets) : inside(h, n)
        apart(ro, rw, no) ==
            ~clash(ro, rw) /\ ~clash(ro, no) /\ ~clash(rw, no)
    IN (last.op = "validate_access_lists" /\ last.out.exc = "none")
          => apart(IPNetHostList_from_list(last.share.read_only),
                   IPNetHostList_from_list(last.share.read_write),
                   IPNetHostList_from_list(last.share.none))

\* C23: str() of an NFSShare that renders is "sharenfs=", the clauses
\* seclabel (label flag set), anon=nobody, sec=<mode>, nohide (hideds
\* false), ro=, rw=, none=, root= joined by ",", and " racktop:ub=on|off";
\* each of the four access-list clauses is there exactly when its own list
\* is not empty.
C23_NfsClausesByOwnList ==
    LET share == last.share
        own(key, addrs) ==
            IF addrs = <<>> THEN <<>>
            ELSE <<key \o "=" \o HostListStr(IPNetHostList_from_list(addrs))>>
    IN (/\ last.op = "str"
        /\ last.share.cls = "NFSShare"
        /\ last.out.exc = "none")
          => last.out.text =
                "sharenfs="
                    \o Join((IF share.sec_label = "True"
                             THEN <<"seclabel">> ELSE <<>>)
                            \o <<"anon=nobody", "sec=" \o share.sec_mode>>
                            \o (IF share.hideds = "False"
                                THEN <<"nohide">> ELSE <<>>)
                            \o own("ro", share.read_only)
                            \o own("rw", share.read_write)
                            \o own("none", share.none)
                            \o own("root", share.root),
                            ",")
                    \o " racktop:ub="
                    \o (IF share.ub = "True" THEN "on" ELSE "off")

\* C24: str() of a share descriptor (and property_pairs of an SMBShare)
\* with an encrypt, csc or sec value outside its legal set, or an abe,
\* hideds or ub value that is not a bool, renders nothing and raises an
\* error whose message names one such option with that option's own value.
C24_ErrorNamesOptionAndValue ==
    LET share == last.share
        offending ==
            IF share.cls = "NFSShare"
            THEN {<<"sec", share.sec_mode>> :
                     x \in {y \in {1} :
                              share.sec_mode
                                 \notin {"sys", "dh", "none", "krb5",
                                         "krb5i", "krb5p"}}}
                 \cup {<<"hideds", share.hideds>> :
                         x \in {y \in {1} : ~isbool(share.hideds)}}
                 \cup {<<"racktop:ub", share.ub>> :
                         x \in {y \in {1} : ~isbool(share.ub)}}
            ELSE {<<"csc", share.csc>> :
                     x \in {y \in {1} :
                              share.csc
                                 \notin {"manual", "auto", "vdo",
                                         "disabled"}}}
                 \cup {<<"encrypt", share.encrypt>> :
                         x \in {y \in {1} :
                                  share.encrypt
                                     \notin {"enabled", "disabled",
                                             "required"}}}
                 \cup {<<"abe", share.abe>> :
                         x \in {y \in {1} : ~isbool(share.abe)}}
                 \cup {<<"racktop:ub", share.ub>> :
                         x \in {y \in {1} : ~isbool(share.ub)}}
        names(msg) ==
            \E o \in offending :
                \/ msg = "Invalid value for " \o o[1] \o " option: " \o o[2]
                \/ msg = "Invalid type for " \o o[1] \o " option: " \o o[2]
                \/ o = <<"sec", "">> /\ msg = "Security mode cannot be empty"
    IN (last.op = "str" /\ offending # {})
          => /\ last.out.exc \in {"ValueError", "TypeError"}
             /\ last.out.text = ""
             /\ names(last.out.msg)
             /\ share.cls = "SMBShare"
                   => /\ last.pairs.exc \in {"ValueError", "TypeError"}
                      /\ last.pairs.props = EmptyDict
                      /\ names(last.pairs.msg)

\* C25: create_dataset on a Dataset() the caller has not seeded, given
\* known property names, calls createDataset first, with exactly the names
\* of the default profile: the caller's value for a name it supplies, the
\* default for every other, None sent as "none", an int as its decimal
\* string, any other value as it is.
C25_CreateSendsOverlaidDefaults ==
    LET sent(v) == IF v.t = "none" THEN "none" ELSE v.v
        overlay == last.args.props
    IN (/\ last.op = "create_dataset"
        /\ DOMAIN overlay \subseteq KNOWN_PROPS)
          => /\ Len(last.calls) >= 1
             /\ last.calls[1].call = "createDataset"
             /\ last.calls[1].props =
                   [k \in DOMAIN DEFAULT_DATASET_PROPS |->
                      sent(IF k \in DOMAIN overlay THEN overlay[k]
                           ELSE DEFAULT_DATASET_PROPS[k])]

C25_Witness ==
    /\ last.op = "create_dataset"
    /\ last.args.props = [copies |-> IntV("2")]
    /\ last.calls[1].call = "createDataset"
    /\ last.calls[1].props["copies"] = "2"
    /\ last.calls[1].props["quota"] = "none"
    /\ last.calls[1].props["aclinherit"] = "passthrough"

\* C26: diff(observed) on a model holding properties returns exactly the
\* model's own (name, value) pairs whose value differs from the observed
\* value of the same name, names that only observed holds
\* notwithstanding.
C26_DiffReturnsOwnDifferingPairs ==
    LET own(props, observed) ==
            Restrict(props, {k \in DOMAIN props \cap DOMAIN observed :
                               props[k] # observed[k]})
    IN (last.op = "diff" /\ last.ref # "none")
          => /\ last.out.exc = "none"
             /\ last.out.value = own(last.heap[last.ref], last.arg)

\* C30: no operation on a Dataset object changes the class attribute
\* Dataset.DEFAULT_DATASET_PROPS, and seeding a model without props leaves
\* it with exactly the default profile, whatever earlier objects were given.
C30_DefaultProfileIsNeverChanged ==
    [][/\ last'.heap.class = DEFAULT_DATASET_PROPS
       /\ (last.ref = "none" /\ last'.op = "_seed_with_default_props")
             => last'.heap[last'.ref] = DEFAULT_DATASET_PROPS]_vars

C30_Witness ==
    /\ last.op = "merge"
    /\ last.out.exc = "none"
    /\ last.arg = [quota |-> StrV("1G")]
    /\ last.ref = "own"
    /\ last.heap.own = [DEFAULT_DATASET_PROPS EXCEPT !["quota"] = StrV("1G")]
    /\ last.heap.class["quota"] = NoneV

\* C27: when createDataset fails with Exists and the property update and
\* both observations succeed, create_dataset reports "modified" with
\* changed exactly when the pairs observed after the update differ from the
\* pairs observed before it, else "unchanged" without changed; the updates
\* of a modified outcome are the pairs observed after that were not
\* observed before.
C27_ExistsFallbackComparesObservations ==
    [][(/\ last'.op = "create_dataset"
        /\ Len(last'.calls) = 4
        /\ last'.calls[1].ret = "Exists"
        /\ \A i \in 2..4 : last'.calls[i].ret = "ok")
       => LET before == parse_dataset_details(store[last'.path].props)
              after == parse_dataset_details(store'[last'.path].props)
          IN /\ last'.exc = "none"
             /\ last'.res.succeeded
             /\ last'.res.changed = (after # before)
             /\ last'.res.details.outcome =
                   IF after # before THEN "modified" ELSE "unchanged"
             /\ after # before
                   => last'.res.details.updates =
                         [k \in {n \in DOMAIN after :
                                   n \notin DOMAIN before
                                      \/ before[n] # after[n]} |-> after[k]]
      ]_vars

C27_Witness ==
    /\ last.op = "create_dataset"
    /\ Len(last.calls) = 4
    /\ last.calls[1].ret = "Exists"
    /\ last.calls[4].ret = "ok"
    /\ last.res.changed
    /\ last.res.details.outcome = "modified"
    /\ last.res.details.updates = [quota |-> StrV("1G")]

\* C28: set_dataset_properties on an existing dataset, nothing failing on
\* the way, sends in one setProperties request exactly the supplied
\* properties whose value differs from the observed one and returns
\* changed with those as details, or sends nothing and returns succeeded
\* without changed when none differs; run again with the same properties it
\* reports no change, which is to say that the dataset it leaves is
\* observed with every supplied value.
C28_SetSendsDeltasAndIsIdempotent ==
    [][(/\ last'.op = "set_dataset_properties"
        /\ ~last'.faulted
        /\ store[last'.path].exists
        /\ DOMAIN last'.args.props \subseteq KNOWN_PROPS)
       => LET observed == parse_dataset_details(store[last'.path].props)
              wanted == last'.args.props
              delta == {k \in DOMAIN wanted : wanted[k] # observed[k]}
              sets == {i \in 1..Len(last'.calls) :
                         last'.calls[i].call = "setProperties"}
          IN /\ last'.exc = "none"
             /\ last'.res.succeeded
             /\ delta = {} => sets = {} /\ ~last'.res.changed
             /\ delta # {}
                   => /\ Cardinality(sets) = 1
                      /\ \A i \in sets : DOMAIN last'.calls[i].props = delta
                      /\ last'.res.changed
                      /\ last'.res.details.updates =
                            [k \in delta |-> wanted[k]]
             /\ \A k \in DOMAIN wanted :
                   parse_dataset_details(store'[last'.path].props)[k]
                      = wanted[k]
      ]_vars

\* C29: a recursive destroy of a dataset ends after at most two destroy
\* calls for the dataset and each of its descendants and none for any other
\* path; a call removes a dataset only after calls have removed every
\* descendant it had; and when no call fails, neither the dataset nor any
\* of its descendants exists afterwards.
C29_RecursiveDestroyIsBottomUp ==
    [][(last'.op = "destroy_dataset" /\ last'.args.recursive)
       => LET tree == {last'.path} \cup DescendantsOf(store, last'.path)
              calls == SelectSeq(last'.calls,
                                 LAMBDA c : c.call = "destroyDataset")
          IN /\ Len(calls) <= 2 * Cardinality(tree)
             /\ \A i \in 1..Len(calls) : calls[i].path \in tree
             /\ \A i \in 1..Len(calls) :
                   calls[i].ret = "ok"
                   => \A d \in DescendantsOf(store, calls[i].path) :
                         \E j \in 1..(i - 1) :
                            calls[j].path = d /\ calls[j].ret = "ok"
             /\ \A q \in tree :
                   (store[q].exists /\ ~store'[q].exists)
                   => \E i \in 1..Len(calls) :
                         calls[i].path = q /\ calls[i].ret = "ok"
             /\ (/\ calls # <<>>
                 /\ \A i \in 1..Len(calls) :
                       calls[i].ret \in {"ok", "Descendants"})
                   => /\ last'.exc = "none"
                      /\ last'.res.succeeded
                      /\ \A q \in tree : ~store'[q].exists]_vars

C29_Witness ==
    /\ last.op = "destroy_dataset"
    /\ last.args.recursive
    /\ last.path = A
    /\ Len(last.calls) = 6
    /\ last.calls[2].ret = "Descendants"
    /\ last.calls[3].path = ABC
    /\ last.calls[4].path = AB_C
    /\ last.calls[5].path = AB
    /\ last.calls[6].path = A
    /\ \A i \in 3..6 : last.calls[i].ret = "ok"
    /\ \A q \in Paths : ~store[q].exists

=============================================================================
